---- MODULE Spec2Model ----
(***************************************************************************)
(* Ball-device coordination core of mpf (mpf/devices/ball_device/          *)
(* ball_device.py).  Every BallDevice runs one cooperative task            *)
(* (_state_idle and the state coroutines it calls); the model takes one    *)
(* step of a task from one suspension point (a wait on futures) to the     *)
(* next.  Events posted inside a step are delivered to their handlers in   *)
(* the same step (the bus is single threaded and the handlers here are     *)
(* plain callbacks).  Time is abstracted: a timeout is a step that may be  *)
(* taken whenever the timer is armed.                                      *)
(*                                                                         *)
(* The properties `balls` and `_state` of BallDevice are read through the  *)
(* ball count handler and the outgoing balls handler; the model keeps them *)
(* as the fields the state coroutines assign.                              *)
(***************************************************************************)
EXTENDS Integers, Sequences, FiniteSets, TLC

\* ------------------------------------------------------------------ bounds
MaxCalls == 1        \* request_ball / eject calls made by the game logic
MaxEnv == 1          \* unplanned sensor changes (ball appears, vanishes, jam)
MaxNum == 3          \* cap of num_eject_attempts when max_eject_attempts = 0
MaxDepth == 4        \* recursion depth explored by the graph searches

\* ---------------------------------------------------------------- devices
None == "none"
Dev == {"T", "P", "PF"}
DevOrder == <<"T", "P", "PF">>          \* machine.ball_devices order
PlayfieldCapacity == 999

VARIABLES
    config,                          \* the configuration loaded at construction
    state,                           \* _state
    pc,                              \* suspension point of the device task
    balls,                           \* balls (handled ball count)
    counted,                         \* what counter.count_balls() returns now
    jam_active,                      \* jam switch level
    available_balls,
    eject_queue,
    eject_in_progress_target,
    mechanical_eject_in_progress,
    trigger_event,
    num_eject_attempts,
    jam_switch_state_during_eject,
    incoming_balls,                  \* _incoming_balls
    ball_requests,
    eject_request_condition,         \* _eject_request_condition (level)
    eject_success_condition,         \* _eject_success_condition
    armed,                           \* futures the current wait listens to
    woken,                           \* futures of the current wait that are done
    handlers,                        \* confirmation handlers and delays registered
    posted,                          \* per device, per event: number of posts
    log,                             \* per device: events of the current eject
    attempt_log,                     \* per device: steps of the current eject attempt
    attempts,                        \* per device: attempts of the eject taken from the queue
    started_busy,                    \* an eject started while another was in progress
    ejector_fired,                   \* ejector.eject_one_ball() calls
    missing_added,                   \* balls passed to ball_missing_target.add_missing_balls
    confirm_calls,                   \* eject_success() was invoked for the eject
    crashed,                         \* exception that ended the device task
    calls,                           \* game-logic calls made
    env,                             \* unplanned sensor changes made
    chain,                           \* last setup_eject_chain call observed
    routed_broken,                   \* a call planned through a broken device
    query                            \* last call of a method observed alone

vars == <<config, state, pc, balls, counted, jam_active, available_balls,
          eject_queue, eject_in_progress_target, mechanical_eject_in_progress,
          trigger_event, num_eject_attempts, jam_switch_state_during_eject,
          incoming_balls, ball_requests, eject_request_condition,
          eject_success_condition, armed, woken, handlers, posted, log,
          attempt_log, attempts, started_busy, ejector_fired, missing_added, confirm_calls,
          crashed, calls, env, chain, routed_broken, query>>

\* The whole mutable state as one record, so that a handler's statements
\* compose as function applications.
S == [state |-> state, pc |-> pc, balls |-> balls, counted |-> counted,
      jam_active |-> jam_active, available_balls |-> available_balls,
      eject_queue |-> eject_queue,
      eject_in_progress_target |-> eject_in_progress_target,
      mechanical_eject_in_progress |-> mechanical_eject_in_progress,
      trigger_event |-> trigger_event,
      num_eject_attempts |-> num_eject_attempts,
      jam_switch_state_during_eject |-> jam_switch_state_during_eject,
      incoming_balls |-> incoming_balls, ball_requests |-> ball_requests,
      eject_request_condition |-> eject_request_condition,
      eject_success_condition |-> eject_success_condition,
      armed |-> armed, woken |-> woken, handlers |-> handlers,
      posted |-> posted, log |-> log, attempt_log |-> attempt_log,
      attempts |-> attempts,
      started_busy |-> started_busy, ejector_fired |-> ejector_fired,
      missing_added |-> missing_added, confirm_calls |-> confirm_calls,
      crashed |-> crashed, calls |-> calls, env |-> env, chain |-> chain,
      routed_broken |-> routed_broken, query |-> query,
      \* not state: what the call in progress returned or raised, and the
      \* balldevice_balls_available events it posted that await delivery
      ret |-> FALSE, raised |-> None, balls_available |-> 0]

Commit(r) ==
    /\ state' = r.state
    /\ pc' = r.pc
    /\ balls' = r.balls
    /\ counted' = r.counted
    /\ jam_active' = r.jam_active
    /\ available_balls' = r.available_balls
    /\ eject_queue' = r.eject_queue
    /\ eject_in_progress_target' = r.eject_in_progress_target
    /\ mechanical_eject_in_progress' = r.mechanical_eject_in_progress
    /\ trigger_event' = r.trigger_event
    /\ num_eject_attempts' = r.num_eject_attempts
    /\ jam_switch_state_during_eject' = r.jam_switch_state_during_eject
    /\ incoming_balls' = r.incoming_balls
    /\ ball_requests' = r.ball_requests
    /\ eject_request_condition' = r.eject_request_condition
    /\ eject_success_condition' = r.eject_success_condition
    /\ armed' = r.armed
    /\ woken' = r.woken
    /\ handlers' = r.handlers
    /\ posted' = r.posted
    /\ log' = r.log
    /\ attempt_log' = r.attempt_log
    /\ attempts' = r.attempts
    /\ started_busy' = r.started_busy
    /\ ejector_fired' = r.ejector_fired
    /\ missing_added' = r.missing_added
    /\ confirm_calls' = r.confirm_calls
    /\ crashed' = r.crashed
    /\ calls' = r.calls
    /\ env' = r.env
    /\ chain' = r.chain
    /\ routed_broken' = r.routed_broken
    /\ query' = r.query
    /\ config' = config

\* ---------------------------------------------------------- configuration
Range(q) == {q[i] : i \in 1..Len(q)}

is_playfield(d) == d = "PF"

\* The machine of the literal scenarios: trough T -> plunger P -> playfield.
MkConfig(mech, maxAtt, jam, confirm, trig) ==
    [ball_capacity |-> [d \in Dev |-> IF d = "T" THEN 2 ELSE IF d = "P" THEN 1
                                      ELSE PlayfieldCapacity],
     eject_targets |-> [d \in Dev |-> IF d = "T" THEN <<"P">>
                                      ELSE IF d = "P" THEN <<"PF">> ELSE <<>>],
     tags |-> [d \in Dev |-> IF d = "T" THEN {"trough"}
                             ELSE IF d = "PF" THEN {"playfield"} ELSE {}],
     mechanical_eject |-> [d \in Dev |-> d = "P" /\ mech],
     ball_switches |-> [d \in Dev |-> IF d = "T" THEN 2
                                      ELSE IF d = "P" THEN 1 ELSE 0],
     ejector |-> [d \in Dev |-> d = "T" \/ (d = "P" /\ (~mech \/ trig))],
     max_eject_attempts |-> [d \in Dev |-> maxAtt],
     jam_switch |-> [d \in Dev |-> d # "PF" /\ jam],
     confirm_eject_type |-> [d \in Dev |-> confirm],
     player_controlled_eject_event |->
         [d \in Dev |-> IF d = "P" /\ trig THEN "launch" ELSE None],
     target_on_unexpected_ball |-> [d \in Dev |-> "PF"],
     ball_missing_target |-> [d \in Dev |-> "PF"],
     auto_fire_on_unexpected_ball |-> [d \in Dev |-> TRUE],
     ball_devices |-> DevOrder]

\* mechanical_eject of P, max_eject_attempts, jam_switch, confirm_eject_type,
\* player_controlled_eject_event of P
Configs ==
    {MkConfig(FALSE, 2, TRUE, "target", FALSE),
     MkConfig(TRUE, 1, FALSE, "target", FALSE),
     MkConfig(FALSE, 0, FALSE, "switch", FALSE),
     MkConfig(TRUE, 2, FALSE, "switch", TRUE),
     MkConfig(FALSE, 1, TRUE, "switch", TRUE),
     MkConfig(TRUE, 0, TRUE, "target", FALSE)}

\* _configure_targets: devices that list d among their eject targets
source_devices(d) ==
    SelectSeq(config.ball_devices,
              LAMBDA x : ~is_playfield(x)
                         /\ d \in Range(config.eject_targets[x]))

\* ------------------------------------------------------------ graph/router
Diverge == <<"_no_return_">>

RECURSIVE FindPathFrom(_, _, _, _)
RECURSIVE find_path_to_target_rec(_, _, _)
RECURSIVE FindPathFromSelf(_, _, _, _)
\* mutant: the search is continued on the device itself, not on its target
FindPathFromSelf(d, target, i, fuel) ==
    LET ts == config.eject_targets[d] IN
    IF i > Len(ts) THEN <<>>
    ELSE IF is_playfield(ts[i]) THEN FindPathFromSelf(d, target, i + 1, fuel)
    ELSE LET path == find_path_to_target_rec(d, target, fuel - 1) IN
         IF path = Diverge THEN Diverge
         ELSE IF path # <<>> THEN <<d>> \o path
         ELSE FindPathFromSelf(d, target, i + 1, fuel)

\* the for loop of find_path_to_target over eject_targets[i..]
FindPathFrom(d, target, i, fuel) ==
    LET ts == config.eject_targets[d] IN
    IF i > Len(ts) THEN <<>>
    ELSE IF is_playfield(ts[i]) THEN FindPathFrom(d, target, i + 1, fuel)
    ELSE LET path == find_path_to_target_rec(ts[i], target, fuel - 1) IN
         IF path = Diverge THEN Diverge
         ELSE IF path # <<>> THEN <<d>> \o path
         ELSE FindPathFrom(d, target, i + 1, fuel)

\* mutant: the direct edge to the target is not looked for
FindPathNoDirectEdge(d, target, fuel) ==
    IF fuel = 0 THEN Diverge ELSE FindPathFrom(d, target, 1, fuel)

find_path_to_target_rec(d, target, fuel) ==
    IF fuel = 0 THEN Diverge
    ELSE IF target \in Range(config.eject_targets[d]) THEN <<d, target>>
    ELSE FindPathFrom(d, target, 1, fuel)

\* <<>> stands for the False the method returns when there is no path
find_path_to_target(d, target) == find_path_to_target_rec(d, target, MaxDepth)

RECURSIVE FindTroughFrom(_, _, _)
RECURSIVE find_next_trough_rec(_, _)
FindTroughFrom(d, i, fuel) ==
    LET ts == config.eject_targets[d] IN
    IF i > Len(ts) THEN None
    ELSE IF is_playfield(ts[i]) THEN FindTroughFrom(d, i + 1, fuel)
    ELSE LET trough == find_next_trough_rec(ts[i], fuel - 1) IN
         IF trough # None THEN trough ELSE FindTroughFrom(d, i + 1, fuel)

\* mutant: the device does not look at its own tags
FindNextTroughNotSelf(d, fuel) ==
    IF fuel = 0 THEN "_no_return_" ELSE FindTroughFrom(d, 1, fuel)

find_next_trough_rec(d, fuel) ==
    IF fuel = 0 THEN "_no_return_"
    ELSE IF "trough" \in config.tags[d] THEN d
    ELSE FindTroughFrom(d, 1, fuel)

find_next_trough(d) == find_next_trough_rec(d, MaxDepth)

RECURSIVE FindBallFrom(_, _, _, _)
RECURSIVE find_one_available_ball(_, _, _)
FindBallFrom(s, d, path, i) ==
    LET srcs == source_devices(d) IN
    IF i > Len(srcs) THEN <<>>
    ELSE LET full_path == find_one_available_ball(s, srcs[i], path) IN
         IF full_path # <<>> THEN full_path ELSE FindBallFrom(s, d, path, i + 1)

\* mutant: the requester itself counts as a source of the ball
FindOneAvailableBallSelf(s, d, path) ==
    IF d \in Range(path) THEN <<>>
    ELSE LET p == <<d>> \o path IN
         IF s.available_balls[d] > 0 THEN p
         ELSE FindBallFrom(s, d, p, 1)

\* <<>> stands for False
find_one_available_ball(s, d, path) ==
    IF d \in Range(path) THEN <<>>
    ELSE LET p == <<d>> \o path IN
         IF s.available_balls[d] > 0 /\ Len(p) > 1 THEN p
         ELSE FindBallFrom(s, d, p, 1)

get_real_additional_capacity(s, d) == config.ball_capacity[d] - s.balls[d]

\* mutant: the result is not clamped at 0
GetAdditionalBallCapacityUnclamped(s, d) ==
    get_real_additional_capacity(s, d)
    - Len(s.incoming_balls[d])
    - (IF s.eject_in_progress_target[d] # None THEN 1 ELSE 0)

get_additional_ball_capacity(s, d) ==
    LET capacity == get_real_additional_capacity(s, d)
                    - Len(s.incoming_balls[d])
                    - (IF s.eject_in_progress_target[d] # None THEN 1 ELSE 0)
    IN IF capacity < 0 THEN 0 ELSE capacity

\* ------------------------------------------------------------------ events
Raise(s, what) == [s EXCEPT !.raised = what]

\* a condition that is set and cleared at once resumes only a task that is
\* waiting on it now
Signal(s, t, name) ==
    IF name \in s.armed[t] THEN [s EXCEPT !.woken[t] = @ \cup {name}] ELSE s

Logged(s, d, event) == [s EXCEPT !.log[d] = Append(@, event)]

\* a step of the eject attempt of d is taken
Stepped(s, d, step) == [s EXCEPT !.attempt_log[d] = Append(@, step)]

Count(q, e) == Cardinality({i \in 1..Len(q) : q[i] = e})

\* incoming balls handler: an entry per announced ball, with its deadline
add_incoming_ball(s, target, source) ==
    Signal([s EXCEPT !.incoming_balls[target] =
                Append(@, [source |-> source, expired |-> FALSE])],
           target, "incoming_ball")

RECURSIVE RemoveFirst(_, _)
RemoveFirst(q, source) ==
    IF q = <<>> THEN <<>>
    ELSE IF Head(q).source = source THEN Tail(q)
    ELSE <<Head(q)>> \o RemoveFirst(Tail(q), source)

remove_incoming_ball(s, target, source) ==
    [s EXCEPT !.incoming_balls[target] = RemoveFirst(@, source)]

_notify_target_of_incoming_ball(s, d, target) == add_incoming_ball(s, target, d)

\* mutant: the source never withdraws its announcement
CancelIncomingNowhere(s, d, target) ==
    IF target = None THEN Raise(s, "AttributeError") ELSE s

_cancel_incoming_ball_at_target(s, d, target) ==
    IF target = None THEN Raise(s, "AttributeError")
    ELSE remove_incoming_ball(s, target, d)

\* _source_device_eject_failed of the target, run by the post
_inform_target_about_failed_confirm(s, d, target, retry) ==
    LET s1 == IF retry THEN Logged(s, d, "ball_eject_failed")
              ELSE [Logged(s, d, "ball_eject_failed_noretry")
                       EXCEPT !.posted[d].ball_eject_failed_noretry = @ + 1] IN
    IF target = None THEN s1
    ELSE Signal(s1, target, IF retry THEN "source_eject_failure_retry"
                            ELSE "source_eject_failure")

\* posts balldevice_(d)_ok_to_receive: wakes the idle sources whose next eject
\* goes to d
_ok_to_receive(s, d) ==
    [s EXCEPT !.woken = [x \in DOMAIN s.woken |->
        IF /\ "ok_to_receive" \in s.armed[x]
           /\ s.eject_queue[x] # <<>>
           /\ Head(s.eject_queue[x]).target = d
        THEN @[x] \cup {"ok_to_receive"} ELSE @[x]]]

\* --------------------------------------------------------- eject planning
Returned(s, value) == [s EXCEPT !.ret = value]

\* the entry setup_eject_chain_next_hop appends to the eject queue of d
QueueEntry(d, next_hop, player_controlled) ==
    IF player_controlled
       /\ (config.mechanical_eject[d]
           \/ config.player_controlled_eject_event[d] # None)
    THEN [target |-> next_hop,
          mechanical |-> config.mechanical_eject[d],
          trigger |-> config.player_controlled_eject_event[d]]
    ELSE [target |-> next_hop, mechanical |-> FALSE, trigger |-> None]

\* the last statement of setup_eject_chain_next_hop
SetEjectRequest(s, d) ==
    IF s.raised # None THEN s
    ELSE [s EXCEPT !.eject_request_condition[d] = TRUE]

RECURSIVE setup_eject_chain_next_hop(_, _, _, _)
setup_eject_chain_next_hop(s, d, path, player_controlled) ==
    IF path = <<>> THEN Raise(s, "IndexError")
    ELSE IF Head(path) \notin Range(config.eject_targets[d])
    THEN Raise(s, "Broken path")
    ELSE SetEjectRequest(
             IF Len(Tail(path)) > 0
             THEN setup_eject_chain_next_hop(
                      [s EXCEPT !.eject_queue[d] =
                          Append(@, QueueEntry(d, Head(path),
                                               player_controlled))],
                      Head(path), Tail(path), player_controlled)
             ELSE [s EXCEPT !.eject_queue[d] =
                      Append(@, QueueEntry(d, Head(path), player_controlled))],
             d)

\* mutant: the final target is not told about the ball
ChainTargetForgotten(s, target) ==
    IF s.raised # None THEN s
    ELSE [s EXCEPT !.balls_available = @ + 1]

\* the end of setup_eject_chain: the ball is available at the final target
\* and balldevice_balls_available is posted
ChainTarget(s, target) ==
    IF s.raised # None THEN s
    ELSE [s EXCEPT !.available_balls[target] = @ + 1,
                   !.balls_available = @ + 1]

setup_eject_chain(s, d, path, player_controlled) ==
    IF s.available_balls[d] <= 0 THEN Raise(s, "no available balls")
    ELSE IF Head(path) # d
    THEN Raise([s EXCEPT !.available_balls[d] = @ - 1],
               "Path starts somewhere else!")
    ELSE ChainTarget(
             setup_eject_chain_next_hop(
                 [s EXCEPT !.available_balls[d] = @ - 1], d, Tail(path),
                 player_controlled),
             path[Len(path)])

\* _setup_or_queue_eject_to_target once its two searches are made
SetupOrQueueOn(s, d, target, player_controlled, path_to_target, found) ==
    IF s.available_balls[d] > 0 /\ d # target
    THEN IF path_to_target = <<>> \/ path_to_target = Diverge
         THEN Raise(s, "TypeError")
         ELSE Returned(setup_eject_chain(s, path_to_target[1], path_to_target,
                                         player_controlled), TRUE)
    ELSE IF found = <<>>
    THEN [s EXCEPT !.ball_requests[d] =
                Append(@, [target |-> target,
                           player_controlled |-> player_controlled]),
                   !.ret = FALSE]
    ELSE IF target # d /\ target \notin Range(config.eject_targets[d])
    THEN Raise(s, "Do not know how to eject")
    ELSE Returned(setup_eject_chain(
                      s, found[1],
                      IF target # d THEN found \o Tail(path_to_target)
                      ELSE found,
                      player_controlled), TRUE)

_setup_or_queue_eject_to_target(s, d, target, player_controlled) ==
    SetupOrQueueOn(s, d, target, player_controlled,
                   find_path_to_target(d, target),
                   find_one_available_ball(s, d, <<>>))

\* the handler returns False when the request was served
RequestServed(s) == [s EXCEPT !.ret = ~@]

\* _source_device_balls_available of device d; ret = FALSE stops the event
_source_device_balls_available(s, d) ==
    IF Len(s.ball_requests[d]) > 0
    THEN RequestServed(
             _setup_or_queue_eject_to_target(
                 [s EXCEPT !.ball_requests[d] = Tail(@)], d,
                 Head(s.ball_requests[d]).target,
                 Head(s.ball_requests[d]).player_controlled))
    ELSE Returned(s, TRUE)

\* devices that registered _source_device_balls_available, in handler order
BallsAvailableHandlers ==
    SelectSeq(config.ball_devices,
              LAMBDA x : ~is_playfield(x) /\ Len(source_devices(x)) > 0)

RECURSIVE RunBallsAvailable(_, _)
RECURSIVE NextBallsAvailable(_, _)
\* one post_boolean of balldevice_balls_available, from handler i on
RunBallsAvailable(s, i) ==
    IF i > Len(BallsAvailableHandlers) \/ s.raised # None THEN s
    ELSE NextBallsAvailable(
             _source_device_balls_available(s, BallsAvailableHandlers[i]), i)

\* post_boolean goes on to the next handler unless this one returned False
NextBallsAvailable(s, i) ==
    IF s.ret THEN RunBallsAvailable(s, i + 1) ELSE s

RECURSIVE DeliverBallsAvailable(_)
\* the bus delivers the balldevice_balls_available events posted so far
DeliverBallsAvailable(s) ==
    IF s.balls_available = 0 \/ s.raised # None THEN s
    ELSE DeliverBallsAvailable(
             RunBallsAvailable([s EXCEPT !.balls_available = @ - 1], 1))

\* ------------------------------------------------------- device task: helpers
\* suspend the task of d on a set of futures
Wait(s, d, where, futures) ==
    [s EXCEPT !.pc[d] = where, !.armed[d] = futures, !.woken[d] = {}]

\* mutant: the loop of _state_idle goes on when the device is broken
ReturnToIdleWhenBroken(s, d) ==
    Wait([s EXCEPT !.log[d] = <<>>, !.attempt_log[d] = <<>>,
                   !.attempts[d] = 0, !.ejector_fired[d] = 0],
         d, "idle_count", {})

\* a state coroutine returns to the loop of _state_idle, which leaves when
\* the device is broken and counts the balls again otherwise
ReturnToIdle(s, d) ==
    IF s.state[d] = "eject_broken" THEN Wait(s, d, "done", {})
    ELSE Wait([s EXCEPT !.log[d] = <<>>, !.attempt_log[d] = <<>>,
                        !.attempts[d] = 0, !.ejector_fired[d] = 0],
              d, "idle_count", {})

SetState(s, d, name) == [s EXCEPT !.state[d] = name]

\* eject_success: the confirmation callback of every handler and delay
eject_success(s, d) ==
    [s EXCEPT !.confirm_calls[d] = 1]

\* mutant: the playfield_confirmation delay is not removed
CancelKeepsPlayfieldDelay(s, d) ==
    [s EXCEPT !.eject_in_progress_target[d] = None,
              !.handlers[d] = @ \cap {"playfield_confirmation"},
              !.mechanical_eject_in_progress[d] = FALSE,
              !.confirm_calls[d] = 0]

_cancel_eject_confirmation(s, d) ==
    [s EXCEPT !.eject_in_progress_target[d] = None,
              !.handlers[d] = {},
              !.mechanical_eject_in_progress[d] = FALSE,
              !.confirm_calls[d] = 0]

_setup_eject_confirmation_to_playfield(s, d, target) ==
    LET s1 == [s EXCEPT !.handlers[d] = @ \cup {"playfield_active"}] IN
    IF s.mechanical_eject_in_progress[d]
       /\ s.state[d] = "waiting_for_ball_mechanical"
    THEN IF s.incoming_balls[d] = <<>> THEN Raise(s1, "IndexError")
         ELSE [s1 EXCEPT !.handlers[d] = @ \cup {"playfield_confirmation"}]
    ELSE s1

_setup_eject_confirmation_to_target(s, d, target) ==
    IF target = None THEN Raise(s, "eject confirmation with no target")
    ELSE IF ~is_playfield(target)
    THEN [s EXCEPT !.handlers[d] = @ \cup {"target_ball_enter"}]
    ELSE s

_setup_eject_confirmation_via_switch(s, d) ==
    [s EXCEPT !.handlers[d] = @ \cup {"confirm_eject_switch"}]

_setup_eject_confirmation_via_event(s, d) ==
    [s EXCEPT !.handlers[d] = @ \cup {"confirm_eject_event"}]

_setup_eject_confirmation_fake(s, d) ==
    IF config.ball_switches[d] > 0
    THEN Raise(s, "Cannot use fake with ball switches")
    ELSE [s EXCEPT !.handlers[d] =
              @ \cup {"target_eject_confirmation_timeout"}]

\* _setup_eject_confirmation after the playfield part: the confirm type
ConfirmByType(s, d, target) ==
    IF s.raised # None THEN s
    ELSE IF config.confirm_eject_type[d] = "target"
    THEN _setup_eject_confirmation_to_target(s, d, target)
    ELSE IF config.confirm_eject_type[d] = "switch"
    THEN _setup_eject_confirmation_via_switch(s, d)
    ELSE IF config.confirm_eject_type[d] = "event"
    THEN _setup_eject_confirmation_via_event(s, d)
    ELSE IF config.confirm_eject_type[d] = "fake"
    THEN _setup_eject_confirmation_fake(s, d)
    ELSE Raise(s, "Invalid confirm_eject_type setting")

_setup_eject_confirmation(s, d, target) ==
    ConfirmByType(
        IF target # None /\ is_playfield(target)
        THEN _setup_eject_confirmation_to_playfield(
                 [s EXCEPT !.eject_success_condition[d] = FALSE,
                           !.confirm_calls[d] = 0], d, target)
        ELSE [s EXCEPT !.eject_success_condition[d] = FALSE,
                       !.confirm_calls[d] = 0],
        d, target)

\* mutant: the attempt is not announced
DoEjectAttemptSilent(s, d) == s

\* posts the queue event ball_eject_attempt, which its only subscriber
\* (_source_device_eject_attempt of the target) releases at once, and then
\* (_perform_eject) ejecting_ball
_do_eject_attempt(s, d) ==
    Stepped(Stepped(s, d, "ball_eject_attempt"), d, "ejecting_ball")

\* -------------------------------------------------------- State: ball_left
\* _ball_left once the confirmation is set up: notify the target, arm the
\* playfield delay, wait for the confirmation
BallLeftWait(s, d, target, bounded) ==
    IF s.raised # None THEN s
    ELSE Wait([(IF config.confirm_eject_type[d] = "target"
                THEN _notify_target_of_incoming_ball(s, d, target)
                ELSE s)
                  EXCEPT !.handlers[d] =
                      IF is_playfield(target)
                      THEN @ \cup {"playfield_confirmation"} ELSE @],
              d, "ball_left",
              {"eject_success"} \cup (IF bounded THEN {"timeout"} ELSE {}))

_ball_left(s, d, bounded) ==
    BallLeftWait(
        _setup_eject_confirmation(SetState(s, d, "ball_left"), d,
                                  s.eject_in_progress_target[d]),
        d, s.eject_in_progress_target[d], bounded)

\* --------------------------------------------------------- State: ejecting
\* mutant: the wait for the ball to leave is bounded for every eject
WaitForBallLeftBounded(s, d) ==
    LET mech == s.mechanical_eject_in_progress[d]
        fire == config.ejector[d] /\ ~mech
        s1 == IF fire
              THEN Stepped([s EXCEPT !.ejector_fired[d] = @ + 1], d,
                           "eject_one_ball")
              ELSE s
    IN Wait(s1, d, "wait_left",
            {"ball_left", "timeout"}
            \cup (IF config.ejector[d] /\ mech /\ s.trigger_event[d] # None
                  THEN {"trigger"} ELSE {}))

\* mutant: the coil is fired whether or not the eject is mechanical
WaitForBallLeftFires(s, d) ==
    LET mech == s.mechanical_eject_in_progress[d]
        s1 == IF config.ejector[d]
              THEN Stepped([s EXCEPT !.ejector_fired[d] = @ + 1], d,
                           "eject_one_ball")
              ELSE s
    IN Wait(s1, d, "wait_left",
            {"ball_left"}
            \cup (IF ~mech THEN {"timeout"} ELSE {})
            \cup (IF config.ejector[d] /\ mech /\ s.trigger_event[d] # None
                  THEN {"trigger"} ELSE {}))

_wait_for_ball_left(s, d) ==
    LET mech == s.mechanical_eject_in_progress[d]
        fire == config.ejector[d] /\ ~mech
        s1 == IF fire
              THEN Stepped([s EXCEPT !.ejector_fired[d] = @ + 1], d,
                           "eject_one_ball")
              ELSE s
    IN Wait(s1, d, "wait_left",
            {"ball_left"}
            \cup (IF ~mech THEN {"timeout"} ELSE {})
            \cup (IF config.ejector[d] /\ mech /\ s.trigger_event[d] # None
                  THEN {"trigger"} ELSE {}))

\* fresh: the eject is taken from the queue for its first attempt
_ejecting(s, d, fresh) ==
    LET entry == Head(s.eject_queue[d])
        s1 == [s EXCEPT
                 !.started_busy[d] = @ \/ s.eject_in_progress_target[d] # None,
                 !.state[d] = "ejecting",
                 !.eject_in_progress_target[d] = entry.target,
                 !.mechanical_eject_in_progress[d] = entry.mechanical,
                 !.trigger_event[d] = entry.trigger,
                 !.eject_queue[d] = Tail(@),
                 !.num_eject_attempts[d] = @ + 1,
                 !.jam_switch_state_during_eject[d] =
                     config.jam_switch[d] /\ s.jam_active[d],
                 !.attempts[d] = IF fresh THEN 1 ELSE @ + 1,
                 !.log[d] = IF fresh THEN <<>> ELSE @,
                 !.attempt_log[d] = <<"popleft", "jam_switch_state">>,
                 !.ejector_fired[d] = IF fresh THEN 0 ELSE @]
    IN IF entry.trigger = None \/ entry.mechanical
       THEN _wait_for_ball_left(_do_eject_attempt(s1, d), d)
       ELSE Wait(s1, d, "ejecting_trigger", {"trigger"})

\* ----------------------------------------------------- State: failed_eject
\* mutant: the failed eject stays in progress
EjectFailedStaysInProgress(s, d, retry) ==
    _inform_target_about_failed_confirm(
        [s EXCEPT !.state[d] = "eject_failed",
                  !.eject_queue[d] =
                      IF retry
                      THEN <<[target |-> s.eject_in_progress_target[d],
                              mechanical |-> s.mechanical_eject_in_progress[d],
                              trigger |-> s.trigger_event[d]]>> \o @
                      ELSE @,
                  !.handlers[d] = {}],
        d, s.eject_in_progress_target[d], retry)

\* mutant: the eject to retry is put at the tail of the queue
EjectFailedRequeuesAtTail(s, d, retry) ==
    LET target == s.eject_in_progress_target[d]
        s1 == SetState(s, d, "eject_failed")
        s2 == IF retry
              THEN [s1 EXCEPT !.eject_queue[d] =
                        Append(@, [target |-> target,
                                   mechanical |-> s.mechanical_eject_in_progress[d],
                                   trigger |-> s.trigger_event[d]])]
              ELSE s1
        s3 == _cancel_eject_confirmation(
                  [s2 EXCEPT !.eject_in_progress_target[d] = None], d)
    IN _inform_target_about_failed_confirm(s3, d, target, retry)

eject_failed(s, d, retry) ==
    LET target == s.eject_in_progress_target[d]
        s1 == SetState(s, d, "eject_failed")
        s2 == IF retry
              THEN [s1 EXCEPT !.eject_queue[d] =
                        <<[target |-> target,
                           mechanical |-> s.mechanical_eject_in_progress[d],
                           trigger |-> s.trigger_event[d]]>> \o @]
              ELSE s1
        s3 == _cancel_eject_confirmation(
                  [s2 EXCEPT !.eject_in_progress_target[d] = None], d)
    IN _inform_target_about_failed_confirm(s3, d, target, retry)

\* mutant: the device gives up without posting ball_eject_permanent_failure
EjectPermanentlyFailedSilent(s, d) == s

_eject_permanently_failed(s, d) == Logged(s, d, "ball_eject_permanent_failure")

_eject_broken(s, d) ==
    [Logged(SetState(s, d, "eject_broken"), d, "eject_broken")
        EXCEPT !.posted[d].eject_broken = @ + 1]

\* mutant: one attempt more than max_eject_attempts
FailedEjectNextOneMore(s, d) ==
    IF config.max_eject_attempts[d] # 0
       /\ s.num_eject_attempts[d] > config.max_eject_attempts[d]
    THEN ReturnToIdle(_eject_broken(_eject_permanently_failed(s, d), d), d)
    ELSE _ejecting(s, d, FALSE)

\* _failed_eject after eject_failed: give up or try again
FailedEjectNext(s, d) ==
    IF config.max_eject_attempts[d] # 0
       /\ s.num_eject_attempts[d] >= config.max_eject_attempts[d]
    THEN ReturnToIdle(_eject_broken(_eject_permanently_failed(s, d), d), d)
    ELSE _ejecting(s, d, FALSE)

_failed_eject(s, d) ==
    FailedEjectNext(eject_failed(SetState(s, d, "failed_eject"), d, TRUE), d)

\* ---------------------------------------------------- State: failed_confirm
\* mutant: the event is posted but the ball_missing_target is not called
BallsMissingNotAdded(s, d, n) ==
    [s EXCEPT !.posted[d].ball_missing = @ + n]

_balls_missing(s, d, n) ==
    [s EXCEPT !.posted[d].ball_missing = @ + n,
              !.missing_added[config.ball_missing_target[d]] = @ + n]

\* mutant: the eject of the lost ball is put back in the queue
BallMissingTimoutRetries(s, d) ==
    IF s.state[d] # "failed_confirm" THEN Raise(s, "Invalid state")
    ELSE
    LET s1 == IF config.confirm_eject_type[d] = "target"
              THEN _cancel_incoming_ball_at_target(
                       s, d, s.eject_in_progress_target[d])
              ELSE s
        s2 == eject_failed(s1, d, TRUE)
        s3 == _balls_missing(s2, d, 1)
    IN [s3 EXCEPT !.eject_in_progress_target[d] = None]

_ball_missing_timout(s, d) ==
    IF s.state[d] # "failed_confirm" THEN Raise(s, "Invalid state")
    ELSE
    LET s1 == IF config.confirm_eject_type[d] = "target"
              THEN _cancel_incoming_ball_at_target(
                       s, d, s.eject_in_progress_target[d])
              ELSE s
        s2 == eject_failed(s1, d, FALSE)
        s3 == _balls_missing(s2, d, 1)
    IN [s3 EXCEPT !.eject_in_progress_target[d] = None]

\* mutant: the returned ball is counted twice
BallReturnedTwice(s, d) ==
    [(IF config.confirm_eject_type[d] = "target"
      THEN _cancel_incoming_ball_at_target(s, d, s.eject_in_progress_target[d])
      ELSE s) EXCEPT !.balls[d] = @ + 2]

\* the ball is back: the announcement is withdrawn and the ball counted
BallReturned(s, d) ==
    [(IF config.confirm_eject_type[d] = "target"
      THEN _cancel_incoming_ball_at_target(s, d, s.eject_in_progress_target[d])
      ELSE s) EXCEPT !.balls[d] = @ + 1]

\* mutant: the jam switch is not looked at
FailedConfirmLoopNoJam(s, d) ==
    IF s.eject_success_condition[d] THEN ReturnToIdle(s, d)
    ELSE IF s.balls[d] < s.counted[d]
    THEN _failed_eject(BallReturned(s, d), d)
    ELSE Wait(s, d, "failed_confirm", {"timeout", "activity", "eject_success"})

\* one round of the loop of _failed_confirm, up to its wait
FailedConfirmLoop(s, d) ==
    IF s.eject_success_condition[d] THEN ReturnToIdle(s, d)
    ELSE IF \/ /\ config.jam_switch[d]
               /\ ~s.jam_switch_state_during_eject[d]
               /\ s.jam_active[d]
            \/ s.balls[d] < s.counted[d]
    THEN _failed_eject(BallReturned(s, d), d)
    ELSE Wait(s, d, "failed_confirm", {"timeout", "activity", "eject_success"})

_failed_confirm(s, d) == FailedConfirmLoop(SetState(s, d, "failed_confirm"), d)

\* -------------------------------------------------- State: waiting_for_ball
_cancel_eject(s, d) ==
    IF s.eject_queue[d] = <<>> THEN Raise(s, "IndexError")
    ELSE LET target == Head(s.eject_queue[d]).target IN
         Signal([s EXCEPT !.eject_queue[d] = Tail(@),
                          !.posted[d].ball_lost = IF @ < 2 THEN @ + 1 ELSE @],
                target, "incoming_ball_lost")

\* mutant: the lost ball is taken from available_balls without the test
LostIncomingBallUnguarded(s, d) ==
    [s EXCEPT !.available_balls[d] = @ - 1]

\* mutant: the eject is cancelled whether or not a ball was still available
LostIncomingBallAlwaysCancels(s, d) ==
    IF Len(s.eject_queue[d]) = 0 THEN Raise(s, "Should have eject_queue")
    ELSE _cancel_eject(s, d)

_handle_lost_incoming_ball(s, d) ==
    IF s.available_balls[d] > 0
    THEN [s EXCEPT !.available_balls[d] = @ - 1]
    ELSE IF Len(s.eject_queue[d]) = 0 THEN Raise(s, "Should have eject_queue")
    ELSE _cancel_eject(s, d)

\* one round of the loop of _waiting_for_ball, up to its wait
WaitingForBallLoop(s, d) ==
    LET b == s.counted[d]
        s1 == SetState(s, d, "waiting_for_ball")
    IN IF s.balls[d] > b
       THEN Raise(s1, "We did not have balls but lost one!")
       ELSE IF s.balls[d] < b THEN ReturnToIdle(s1, d)
       ELSE Wait(s1, d, "waiting_for_ball",
                 {"activity", "source_eject_failure", "incoming_ball"}
                 \cup (IF s.incoming_balls[d] # <<>>
                       THEN {"timer", "incoming_ball_lost"} ELSE {}))

_waiting_for_ball(s, d) == WaitingForBallLoop(s, d)

\* --------------------------------------- State: waiting_for_ball_mechanical
\* what the caller does when _waiting_for_ball_mechanical returns
MechanicalReturns(s, d, caller, result) ==
    IF caller = "idle" \/ result THEN ReturnToIdle(s, d)
    ELSE WaitingForBallLoop(s, d)

\* one round of the loop of _waiting_for_ball_mechanical, up to its wait
MechanicalLoop(s, d, caller) ==
    IF s.balls[d] > s.counted[d]
    THEN Raise(SetState(s, d, "waiting_for_ball_mechanical"),
               "We dont have balls but lose one!")
    ELSE IF s.balls[d] < s.counted[d]
    THEN MechanicalReturns(
             _inform_target_about_failed_confirm(
                 _cancel_eject_confirmation(
                     _cancel_incoming_ball_at_target(
                         [s EXCEPT !.state[d] = "waiting_for_ball_mechanical",
                                   !.eject_in_progress_target[d] = None],
                         d, s.eject_in_progress_target[d]), d),
                 d, s.eject_in_progress_target[d], TRUE),
             d, caller, TRUE)
    ELSE Wait(SetState(s, d, "waiting_for_ball_mechanical"), d,
              IF caller = "idle" THEN "mechanical_from_idle"
              ELSE "mechanical_from_waiting",
              {"source_eject_failure", "source_eject_failure_retry",
               "activity", "eject_success"})

\* _waiting_for_ball_mechanical enters its loop unless the setup raised
MechanicalEnter(s, d, caller) ==
    IF s.raised # None THEN s ELSE MechanicalLoop(s, d, caller)

\* the target of the mechanical eject
MechanicalTarget(s, d) ==
    IF Len(s.eject_queue[d]) > 0 THEN Head(s.eject_queue[d]).target
    ELSE config.eject_targets[d][1]

_waiting_for_ball_mechanical(s, d, caller) ==
    MechanicalEnter(
        _setup_eject_confirmation(
            _do_eject_attempt(
                _notify_target_of_incoming_ball(
                    [s EXCEPT
                       !.started_busy[d] =
                           @ \/ s.eject_in_progress_target[d] # None,
                       !.state[d] = "waiting_for_ball_mechanical",
                       !.eject_in_progress_target[d] = MechanicalTarget(s, d),
                       !.mechanical_eject_in_progress[d] = TRUE,
                       !.num_eject_attempts[d] = @ + 1,
                       !.log[d] = <<>>, !.attempt_log[d] = <<>>],
                    d, MechanicalTarget(s, d)), d),
            d, MechanicalTarget(s, d)),
        d, caller)

\* ------------------------------------------------------------- new balls
RECURSIVE SetupChains(_, _, _, _, _)
SetupChains(s, d, path, player_controlled, n) ==
    IF n = 0 \/ s.raised # None THEN s
    ELSE SetupChains(setup_eject_chain(s, d, path, player_controlled),
                     d, path, player_controlled, n - 1)

RECURSIVE SetupOrQueue(_, _, _, _)
SetupOrQueue(s, d, target, n) ==
    IF n = 0 \/ s.raised # None THEN s
    ELSE SetupOrQueue(_setup_or_queue_eject_to_target(s, d, target, FALSE),
                      d, target, n - 1)

\* mutant: the chains of unclaimed balls are never player-controlled
RouteUnclaimedAutoFire(s, d, unclaimed_balls) ==
    IF unclaimed_balls = 0 \/ "trough" \in config.tags[d] THEN s
    ELSE IF "drain" \in config.tags[d]
    THEN IF find_next_trough(d) = None
         THEN Raise(s, "Could not find path to trough")
         ELSE SetupOrQueue(s, d, find_next_trough(d), unclaimed_balls)
    ELSE IF find_path_to_target(d, config.target_on_unexpected_ball[d]) = <<>>
    THEN Raise(s, "Could not find path to playfield")
    ELSE SetupChains(s, d,
                     find_path_to_target(d, config.target_on_unexpected_ball[d]),
                     FALSE, unclaimed_balls)

\* _balls_added_callback: where the unclaimed balls are sent
RouteUnclaimed(s, d, unclaimed_balls) ==
    IF unclaimed_balls = 0 \/ "trough" \in config.tags[d] THEN s
    ELSE IF "drain" \in config.tags[d]
    THEN IF find_next_trough(d) = None
         THEN Raise(s, "Could not find path to trough")
         ELSE SetupOrQueue(s, d, find_next_trough(d), unclaimed_balls)
    ELSE IF find_path_to_target(d, config.target_on_unexpected_ball[d]) = <<>>
    THEN Raise(s, "Could not find path to playfield")
    ELSE SetupChains(s, d,
                     find_path_to_target(d, config.target_on_unexpected_ball[d]),
                     ~config.auto_fire_on_unexpected_ball[d], unclaimed_balls)

\* _balls_added_callback: the pending ball requests of d are served first
ServeOwnRequests(s, d) ==
    IF s.raised = None /\ Len(s.ball_requests[d]) > 0
    THEN _source_device_balls_available(s, d)
    ELSE s

\* mutant: the callback posts no balldevice_balls_available of its own
PostBallsAvailableNever(s, new_balls) == s

\* _balls_added_callback: balldevice_balls_available is posted
PostBallsAvailable(s, new_balls) ==
    IF s.raised # None THEN s
    ELSE [s EXCEPT !.balls_available = @ + new_balls]

_balls_added_callback(s, d, new_balls, unclaimed_balls) ==
    PostBallsAvailable(
        ServeOwnRequests(
            RouteUnclaimed([s EXCEPT !.available_balls[d] = @ + new_balls],
                           d, unclaimed_balls), d),
        new_balls)

\* the ball_enter relay of d reaches the sources that confirm by target
BallEnterPosted(s, d) ==
    [s EXCEPT !.confirm_calls = [x \in DOMAIN s.confirm_calls |->
        IF "target_ball_enter" \in s.handlers[x]
           /\ s.eject_in_progress_target[x] = d
        THEN 1 ELSE @[x]]]

_handle_new_ball(s, d) == _balls_added_callback(BallEnterPosted(s, d), d, 1, 1)

\* _handle_unexpected_ball posts balldevice_captured_from_(device)
unexpected_ball_received(s, d) == _handle_new_ball(s, d)

expected_ball_received(s, d) == s

RECURSIVE _handle_new_balls(_, _, _)
\* the ball count supervisor: a new ball that was announced is expected,
\* any other is unexpected
_handle_new_balls(s, d, n) ==
    IF n = 0 \/ s.raised # None THEN s
    ELSE IF s.incoming_balls[d] # <<>>
    THEN _handle_new_balls(
             expected_ball_received(
                 [s EXCEPT !.incoming_balls[d] = Tail(@)], d), d, n - 1)
    ELSE _handle_new_balls(unexpected_ball_received(s, d), d, n - 1)

\* --------------------------------------------------- State: missing_balls
\* mutant: the balls are reported missing whatever the device is
HandleMissingBallsReported(s, d, n) ==
    ReturnToIdle(_balls_missing(SetState(s, d, "missing_balls"), d, n), d)

_handle_missing_balls(s, d, n) ==
    LET s1 == SetState(s, d, "missing_balls")
        target == config.eject_targets[d][1]
    IN IF config.mechanical_eject[d]
       THEN _ball_left(
                _do_eject_attempt(
                    [s1 EXCEPT
                       !.started_busy[d] =
                           @ \/ s.eject_in_progress_target[d] # None,
                       !.mechanical_eject_in_progress[d] = TRUE,
                       !.eject_in_progress_target[d] = target,
                       !.available_balls[target] = @ + 1,
                       !.log[d] = <<>>, !.attempt_log[d] = <<>>], d),
                d, FALSE)
       ELSE ReturnToIdle(_balls_missing(s1, d, n), d)

\* ------------------------------------------------------------ State: idle
\* mutant: the capacity of the target is not asked for
CheckEjectQueueAnyCapacity(s, d) ==
    IF s.eject_queue[d] # <<>>
    THEN [_ejecting(s, d, TRUE) EXCEPT !.ret = TRUE]
    ELSE [s EXCEPT !.ret = FALSE]

_check_eject_queue(s, d) ==
    IF s.eject_queue[d] # <<>>
       /\ get_additional_ball_capacity(s, Head(s.eject_queue[d]).target) > 0
    THEN [_ejecting(s, d, TRUE) EXCEPT !.ret = TRUE]
    ELSE [s EXCEPT !.ret = FALSE]

_handle_eject_queue(s, d) ==
    IF s.eject_queue[d] # <<>>
    THEN LET s1 == [s EXCEPT !.num_eject_attempts[d] = 0] IN
         IF s1.balls[d] > 0 THEN _check_eject_queue(s1, d)
         ELSE [_waiting_for_ball(s1, d) EXCEPT !.ret = TRUE]
    ELSE [s EXCEPT !.ret = FALSE]

RECURSIVE ExpiredIncoming(_)
\* number of entries at the head of the incoming balls whose deadline passed
ExpiredIncoming(q) ==
    IF q # <<>> /\ Head(q).expired THEN 1 + ExpiredIncoming(Tail(q)) ELSE 0

\* _handle_ball_changes once the new balls are handled: incoming balls that
\* timed out, the ok_to_receive post, the eject queue
AfterNewBalls(s, d) ==
    IF s.raised # None THEN s
    ELSE IF ExpiredIncoming(s.incoming_balls[d]) > 0
    \* _handle_lost_incoming_ball() is called without being awaited
    THEN Returned(
             _handle_missing_balls(
                 [s EXCEPT !.incoming_balls[d] =
                      SubSeq(@, ExpiredIncoming(@) + 1, Len(@))],
                 d, ExpiredIncoming(s.incoming_balls[d])), TRUE)
    ELSE _handle_eject_queue(
             IF get_additional_ball_capacity(s, d) > 0
                /\ (s.eject_queue[d] = <<>> \/ s.balls[d] = 0)
             THEN _ok_to_receive(s, d)
             ELSE s, d)

_handle_ball_changes(s, d, b) ==
    IF s.balls[d] < 0 THEN Raise(s, "Ball count went negative")
    ELSE IF s.balls[d] > b
    THEN Returned(_handle_missing_balls([s EXCEPT !.balls[d] = b], d,
                                        s.balls[d] - b), TRUE)
    ELSE AfterNewBalls(
             IF s.balls[d] < b
             THEN _handle_new_balls([s EXCEPT !.balls[d] = b], d,
                                    b - s.balls[d])
             ELSE s, d)

\* _state_idle after _handle_ball_changes: wait unless a state was run
IdleWait(s, d, first) ==
    IF s.raised # None \/ s.ret THEN s
    ELSE IF first THEN Wait(s, d, "idle_count", {})
    ELSE Wait(s, d, "idle_wait",
              {"activity", "incoming_ball"}
              \cup (IF s.incoming_balls[d] # <<>> THEN {"timer"} ELSE {})
              \cup (IF s.eject_queue[d] # <<>> THEN {"ok_to_receive"} ELSE {}))

\* one round of the loop of _state_idle, from counting the balls to the wait;
\* first: the call before the loop
_state_idle(s, d, first) ==
    IdleWait(_handle_ball_changes(IF first THEN s ELSE SetState(s, d, "idle"),
                                  d, s.counted[d]),
             d, first)

\* ------------------------------------------------------------- public API
request_ball(s, d) == _setup_or_queue_eject_to_target(s, d, d, FALSE)

eject(s, d, target) == _setup_or_queue_eject_to_target(s, d, target, FALSE)

setup_player_controlled_eject(s, d, target) ==
    IF config.mechanical_eject[d]
       \/ (config.player_controlled_eject_event[d] # None /\ config.ejector[d])
    THEN _setup_or_queue_eject_to_target(s, d, target, TRUE)
    ELSE eject(s, d, target)

\* ----------------------------------------------------------------- actions
Devices == {d \in Dev : ~is_playfield(d)}

\* the end of a step of the task of d: the bus delivers what was posted; an
\* exception ends the task
TaskEnd(r, d) ==
    IF r.raised # None
    THEN [r EXCEPT !.crashed[d] = r.raised, !.pc[d] = "crashed",
                   !.armed[d] = {}, !.woken[d] = {}]
    ELSE r

TaskStep(r, d) == TaskEnd(DeliverBallsAvailable(r), d)

\* the task of d can run without anything happening in the machine
Ready(d) ==
    \/ pc[d] \in {"init", "start", "idle_count"}
    \/ pc[d] = "idle_wait" /\ (woken[d] # {} \/ eject_request_condition[d])
    \/ pc[d] \in {"waiting_for_ball", "mechanical_from_idle",
                  "mechanical_from_waiting"} /\ woken[d] # {}
    \/ pc[d] = "failed_confirm" /\ "activity" \in woken[d]

\* the loop runs every task that is ready before it takes the next timer,
\* switch change or call of the game logic
Quiet == \A d \in Dev : ~Ready(d)

InitializeAsync(d) ==
    /\ pc[d] = "init"
    /\ Commit([S EXCEPT !.balls[d] = counted[d],
                        !.available_balls[d] = counted[d],
                        !.pc[d] = "start"])

StateIdle(d) ==
    /\ pc[d] \in {"start", "idle_count"}
    /\ Commit(TaskStep(_state_idle(S, d, pc[d] = "start"), d))

IdleWake(d, event) ==
    /\ pc[d] = "idle_wait"
    /\ \/ event \in woken[d]
       \/ event = "eject_request" /\ eject_request_condition[d]
    /\ Commit(TaskStep(
         IF event = "incoming_ball"
         THEN IF config.mechanical_eject[d]
              THEN _waiting_for_ball_mechanical(S, d, "idle")
              ELSE _waiting_for_ball(S, d)
         ELSE IF event = "eject_request"
         THEN Wait([S EXCEPT !.eject_request_condition[d] = FALSE],
                   d, "idle_count", {})
         ELSE Wait(S, d, "idle_count", {}), d))

WaitingForBallWake(d, event) ==
    /\ pc[d] = "waiting_for_ball"
    /\ event \in woken[d]
    /\ Commit(TaskStep(
         IF event = "source_eject_failure"
         THEN ReturnToIdle(_cancel_eject(S, d), d)
         ELSE IF event \in {"timer", "incoming_ball_lost"}
         THEN ReturnToIdle(_handle_lost_incoming_ball(S, d), d)
         ELSE IF config.mechanical_eject[d] /\ event = "incoming_ball"
         THEN _waiting_for_ball_mechanical(S, d, "waiting")
         ELSE WaitingForBallLoop(S, d), d))

\* the source failed: the announcement and the confirmation are withdrawn
Withdrawn(s, d) ==
    _cancel_eject_confirmation(
        _cancel_incoming_ball_at_target(s, d, s.eject_in_progress_target[d]),
        d)

MechanicalResume(s, d, caller, event) ==
    IF event = "eject_success" THEN MechanicalReturns(s, d, caller, TRUE)
    ELSE IF event = "source_eject_failure"
    THEN MechanicalReturns(_cancel_eject(Withdrawn(s, d), d), d, caller, TRUE)
    ELSE IF event = "source_eject_failure_retry"
    THEN MechanicalReturns(Withdrawn(s, d), d, caller, FALSE)
    ELSE MechanicalLoop(s, d, caller)

MechanicalWake(d, event) ==
    /\ pc[d] \in {"mechanical_from_idle", "mechanical_from_waiting"}
    /\ event \in woken[d]
    /\ Commit(TaskStep(
         MechanicalResume(S, d, IF pc[d] = "mechanical_from_idle" THEN "idle"
                                ELSE "waiting", event), d))

\* the player_controlled_eject_event is posted
TriggerEvent(d) ==
    /\ Quiet
    /\ "trigger" \in armed[d]
    /\ ejector_fired[d] < MaxNum
    /\ Commit(TaskStep(
         IF pc[d] = "ejecting_trigger"
         THEN _wait_for_ball_left(
                  _do_eject_attempt(Stepped(S, d, "trigger_event"), d), d)
         ELSE _wait_for_ball_left(
                  Stepped(Stepped([S EXCEPT !.ejector_fired[d] = @ + 1],
                                  d, "trigger_event"), d, "eject_one_ball"),
                  d), d))

\* the counter reports that the ball left
BallLeaves(d) ==
    /\ Quiet
    /\ pc[d] = "wait_left"
    /\ counted[d] > 0
    /\ Commit(TaskStep(
         _ball_left(Stepped([S EXCEPT !.counted[d] = @ - 1,
                                      !.balls[d] = @ - 1],
                            d, "ejecting_one_ball"),
                    d, TRUE), d))

EjectTimeout(d) ==
    /\ Quiet
    /\ pc[d] = "wait_left"
    /\ "timeout" \in armed[d]
    /\ num_eject_attempts[d] < MaxNum
    /\ Commit(TaskStep(_failed_eject(S, d), d))

ConfirmTimeout(d) ==
    /\ Quiet
    /\ pc[d] = "ball_left"
    /\ "timeout" \in armed[d]
    /\ Commit(TaskStep(_failed_confirm(S, d), d))

FailedConfirmWake(d, event) ==
    /\ pc[d] = "failed_confirm"
    /\ \/ event = "timeout" /\ Quiet
       \/ event = "activity" /\ event \in woken[d]
    /\ (event = "activity" => num_eject_attempts[d] < MaxNum)
    /\ Commit(TaskStep(
         IF eject_success_condition[d] THEN ReturnToIdle(S, d)
         ELSE IF event = "timeout"
         THEN ReturnToIdle(_ball_missing_timout(S, d), d)
         ELSE FailedConfirmLoop(S, d), d))

\* a handler or delay registered by _setup_eject_confirmation fires
ConfirmationFires(d, handler) ==
    /\ Quiet
    /\ handler \in handlers[d]
    /\ confirm_calls[d] = 0
    /\ Commit(eject_success(S, d))

\* --- the machine around the devices
BallEnters(d) ==
    /\ Quiet
    /\ env < MaxEnv
    /\ counted[d] < config.ball_capacity[d]
    /\ Commit(Signal([S EXCEPT !.counted[d] = @ + 1, !.env = @ + 1],
                     d, "activity"))

BallVanishes(d) ==
    /\ Quiet
    /\ env < MaxEnv
    /\ counted[d] > 0
    /\ pc[d] # "wait_left"
    /\ Commit(Signal([S EXCEPT !.counted[d] = @ - 1, !.env = @ + 1],
                     d, "activity"))

JamSwitchChanges(d) ==
    /\ Quiet
    /\ env < MaxEnv
    /\ config.jam_switch[d]
    /\ Commit(Signal([S EXCEPT !.jam_active[d] = ~@, !.env = @ + 1],
                     d, "activity"))

IncomingExpires(d) ==
    /\ Quiet
    /\ incoming_balls[d] # <<>>
    /\ ~Head(incoming_balls[d]).expired
    /\ Commit(Signal([S EXCEPT !.incoming_balls[d][1].expired = TRUE],
                     d, "timer"))

\* --- the game logic
Reachable(d, target) ==
    IF target = d THEN TRUE
    ELSE find_path_to_target(d, target) \notin {<<>>, Diverge}

\* a call of the game logic returned: an exception goes to the caller, the
\* bus delivers what the call posted
GameCall(r) ==
    DeliverBallsAvailable(
        [r EXCEPT !.calls = @ + 1,
                  !.raised = None,
                  !.routed_broken =
                      @ \/ \E x \in Devices :
                               /\ state[x] = "eject_broken"
                               /\ Len(r.eject_queue[x]) > Len(eject_queue[x])])

RequestBall(d) ==
    /\ Quiet
    /\ calls < MaxCalls
    /\ Commit(GameCall(request_ball(S, d)))

Eject(d, target) ==
    /\ Quiet
    /\ calls < MaxCalls
    /\ target # d /\ Reachable(d, target)
    /\ Commit(GameCall(eject(S, d, target)))

SetupPlayerControlledEject(d, target) ==
    /\ Quiet
    /\ calls < MaxCalls
    /\ target # d /\ Reachable(d, target)
    /\ Commit(GameCall(setup_player_controlled_eject(S, d, target)))

NoQuery == [fn |-> None]

NoChain == [path |-> <<>>, available_balls |-> [d \in Dev |-> 0],
            queued |-> [d \in Dev |-> <<>>], raised |-> None]

Init ==
    /\ config \in Configs
    /\ state = [d \in Dev |-> IF is_playfield(d) THEN "playfield" ELSE "invalid"]
    /\ pc = [d \in Dev |-> IF is_playfield(d) THEN "playfield" ELSE "init"]
    /\ balls = [d \in Dev |-> 0]
    /\ counted \in [Dev -> 0..2]
    /\ \A d \in Dev : counted[d] <= config.ball_capacity[d]
    /\ counted["PF"] = 0
    /\ counted["T"] # 1
    /\ jam_active = [d \in Dev |-> FALSE]
    /\ available_balls = [d \in Dev |-> 0]
    /\ eject_queue = [d \in Dev |-> <<>>]
    /\ eject_in_progress_target = [d \in Dev |-> None]
    /\ mechanical_eject_in_progress = [d \in Dev |-> FALSE]
    /\ trigger_event = [d \in Dev |-> None]
    /\ num_eject_attempts = [d \in Dev |-> 0]
    /\ jam_switch_state_during_eject = [d \in Dev |-> FALSE]
    /\ incoming_balls = [d \in Dev |-> <<>>]
    /\ ball_requests = [d \in Dev |-> <<>>]
    /\ eject_request_condition = [d \in Dev |-> FALSE]
    /\ eject_success_condition = [d \in Dev |-> FALSE]
    /\ armed = [d \in Dev |-> {}]
    /\ woken = [d \in Dev |-> {}]
    /\ handlers = [d \in Dev |-> {}]
    /\ posted = [d \in Dev |-> [eject_broken |-> 0, ball_missing |-> 0,
                                ball_lost |-> 0, ball_eject_success |-> 0,
                                ball_eject_failed_noretry |-> 0]]
    /\ log = [d \in Dev |-> <<>>]
    /\ attempt_log = [d \in Dev |-> <<>>]
    /\ attempts = [d \in Dev |-> 0]
    /\ started_busy = [d \in Dev |-> FALSE]
    /\ ejector_fired = [d \in Dev |-> 0]
    /\ missing_added = [d \in Dev |-> 0]
    /\ confirm_calls = [d \in Dev |-> 0]
    /\ crashed = [d \in Dev |-> None]
    /\ calls = 0
    /\ env = 0
    /\ chain = NoChain
    /\ routed_broken = FALSE
    /\ query = NoQuery

WakeEvents == {"activity", "incoming_ball", "timer", "ok_to_receive",
               "eject_request", "source_eject_failure",
               "source_eject_failure_retry", "incoming_ball_lost",
               "eject_success", "timeout"}

HandlerNames == {"target_ball_enter", "playfield_active",
                 "confirm_eject_switch", "confirm_eject_event",
                 "playfield_confirmation", "target_eject_confirmation_timeout"}

Next ==
    \/ \E d \in Devices : InitializeAsync(d)
    \/ \E d \in Devices : StateIdle(d)
    \/ \E d \in Devices, event \in WakeEvents : IdleWake(d, event)
    \/ \E d \in Devices, event \in WakeEvents : WaitingForBallWake(d, event)
    \/ \E d \in Devices, event \in WakeEvents : MechanicalWake(d, event)
    \/ \E d \in Devices : TriggerEvent(d)
    \/ \E d \in Devices : BallLeaves(d)
    \/ \E d \in Devices : EjectTimeout(d)
    \/ \E d \in Devices : ConfirmTimeout(d)
    \/ \E d \in Devices, event \in WakeEvents : FailedConfirmWake(d, event)
    \/ \E d \in Devices, handler \in HandlerNames : ConfirmationFires(d, handler)
    \/ \E d \in Devices : BallEnters(d)
    \/ \E d \in Devices : BallVanishes(d)
    \/ \E d \in Devices : JamSwitchChanges(d)
    \/ \E d \in Devices : IncomingExpires(d)
    \/ \E d \in Devices : RequestBall(d)
    \/ \E d \in Devices, target \in Dev : Eject(d, target)
    \/ \E d \in Devices, target \in Dev : SetupPlayerControlledEject(d, target)

Spec == Init /\ [][Next]_vars

\* ------------------------------------------------- setup_eject_chain alone
MaxChains == 2       \* setup_eject_chain calls applied in a row

\* every sequence of two or three devices is tried as a path
Paths == UNION {[1..n -> Dev] : n \in 2..3}

InitChain ==
    /\ config \in Configs
    /\ state = [d \in Dev |-> IF is_playfield(d) THEN "playfield" ELSE "idle"]
    /\ pc = [d \in Dev |-> IF is_playfield(d) THEN "playfield" ELSE "idle_wait"]
    /\ balls = [d \in Dev |-> IF is_playfield(d) THEN 0
                               ELSE config.ball_capacity[d]]
    /\ counted = balls
    /\ jam_active = [d \in Dev |-> FALSE]
    /\ available_balls \in [Dev -> 0..2]
    /\ eject_queue = [d \in Dev |-> <<>>]
    /\ eject_in_progress_target = [d \in Dev |-> None]
    /\ mechanical_eject_in_progress = [d \in Dev |-> FALSE]
    /\ trigger_event = [d \in Dev |-> None]
    /\ num_eject_attempts = [d \in Dev |-> 0]
    /\ jam_switch_state_during_eject = [d \in Dev |-> FALSE]
    /\ incoming_balls = [d \in Dev |-> <<>>]
    /\ ball_requests = [d \in Dev |-> <<>>]
    /\ eject_request_condition = [d \in Dev |-> FALSE]
    /\ eject_success_condition = [d \in Dev |-> FALSE]
    /\ armed = [d \in Dev |-> {}]
    /\ woken = [d \in Dev |-> {}]
    /\ handlers = [d \in Dev |-> {}]
    /\ posted = [d \in Dev |-> [eject_broken |-> 0, ball_missing |-> 0,
                                ball_lost |-> 0, ball_eject_success |-> 0,
                                ball_eject_failed_noretry |-> 0]]
    /\ log = [d \in Dev |-> <<>>]
    /\ attempt_log = [d \in Dev |-> <<>>]
    /\ attempts = [d \in Dev |-> 0]
    /\ started_busy = [d \in Dev |-> FALSE]
    /\ ejector_fired = [d \in Dev |-> 0]
    /\ missing_added = [d \in Dev |-> 0]
    /\ confirm_calls = [d \in Dev |-> 0]
    /\ crashed = [d \in Dev |-> None]
    /\ calls = 0
    /\ env = 0
    /\ chain = NoChain
    /\ routed_broken = FALSE
    /\ query = NoQuery

\* what the caller of setup_eject_chain sees when the call returns: the path
\* and the state before the call; a call that raised leaves what it did
ChainObserved(r, path) ==
    [r EXCEPT !.calls = @ + 1,
              !.chain = IF r.raised # None THEN NoChain
                        ELSE [path |-> path,
                              available_balls |-> available_balls,
                              queued |-> eject_queue, raised |-> None]]

\* path[1].setup_eject_chain(path, player_controlled)
ApplyChain(path, player_controlled) ==
    /\ calls < MaxChains
    /\ ~is_playfield(path[1])
    /\ Commit(ChainObserved(
                  setup_eject_chain(S, path[1], path, player_controlled), path))

NextChain ==
    \E path \in Paths, player_controlled \in BOOLEAN :
        ApplyChain(path, player_controlled)

SpecChain == InitChain /\ [][NextChain]_vars

\* ------------------------------------------------- machines of five devices
MaxTargets == 2      \* eject_targets a device lists
MaxNew == 2          \* balls one ball_enter relay reports

Nodes == {"T", "P", "PF", "A", "B"}
NodeOrder == <<"T", "P", "PF", "A", "B">>     \* machine.ball_devices order
BallDevices == {d \in Nodes : ~is_playfield(d)}

DefaultEjectTimeout == 10000
DefaultBallMissingTimeout == 20000
IncomingBallTimeout == 60000

Min(values) == CHOOSE x \in values : \A y \in values : x <= y
Max(values) == CHOOSE x \in values : \A y \in values : x >= y

\* the lists of at most n different devices that d can name as eject_targets
TargetLists(d, n) ==
    UNION {{q \in [1..k -> Nodes \ {d}] :
               \A i, j \in 1..k : q[i] = q[j] => i = j} : k \in 0..n}

Graphs ==
    {[d \in Nodes |-> IF d = "T" THEN t ELSE IF d = "P" THEN p
                      ELSE IF d = "A" THEN a ELSE IF d = "B" THEN b ELSE <<>>] :
        t \in TargetLists("T", MaxTargets), p \in TargetLists("P", MaxTargets),
        a \in TargetLists("A", MaxTargets - 1),
        b \in {q \in TargetLists("B", MaxTargets - 1) : Range(q) \subseteq {"PF"}}}

TagsOf(troughs, drains) ==
    [d \in Nodes |-> (IF is_playfield(d) THEN {"playfield"} ELSE {})
                     \cup (IF d \in troughs THEN {"trough"} ELSE {})
                     \cup (IF d \in drains THEN {"drain"} ELSE {})]

TagMaps == {TagsOf({"T"}, {"P"}), TagsOf({"A", "B"}, {"T"}),
            TagsOf({"B"}, {"A", "B"})}

\* a machine of five devices: P is a mechanical plunger, A is fired by the
\* player's launch event, T and B have an eject coil and B a hold coil too
MkMachine(targets, tags, auto_fire) ==
    [ball_capacity |-> [d \in Nodes |-> IF is_playfield(d) THEN PlayfieldCapacity
                                        ELSE IF d = "P" THEN 1 ELSE 2],
     eject_targets |-> targets,
     tags |-> tags,
     mechanical_eject |-> [d \in Nodes |-> d = "P"],
     ejector |-> [d \in Nodes |-> d \in {"T", "A", "B"}],
     eject_coil |-> [d \in Nodes |-> d \in {"T", "A"}],
     hold_coil |-> [d \in Nodes |-> d = "B"],
     ball_switches |-> [d \in Nodes |-> IF is_playfield(d) THEN 0
                                        ELSE IF d = "P" THEN 1 ELSE 2],
     max_eject_attempts |-> [d \in Nodes |-> 2],
     jam_switch |-> [d \in Nodes |-> FALSE],
     confirm_eject_type |-> [d \in Nodes |-> "target"],
     confirm_eject_switch |-> [d \in Nodes |-> FALSE],
     player_controlled_eject_event |->
         [d \in Nodes |-> IF d = "A" THEN "launch" ELSE None],
     target_on_unexpected_ball |-> [d \in Nodes |-> "PF"],
     ball_missing_target |-> [d \in Nodes |-> "PF"],
     auto_fire_on_unexpected_ball |-> [d \in Nodes |-> auto_fire],
     exit_count_delay |-> [d \in Nodes |-> 500],
     entrance_count_delay |-> [d \in Nodes |-> 500],
     \* _parse_config: one timeout for every eject target
     eject_timeouts |->
         [d \in Nodes |-> [i \in 1..Len(targets[d]) |-> DefaultEjectTimeout]],
     ball_missing_timeouts |->
         [d \in Nodes |-> [i \in 1..Len(targets[d]) |->
                              DefaultBallMissingTimeout]],
     ball_devices |-> NodeOrder]

\* mutant: no configuration is rejected
ValidateNothing(d) == None

\* _validate_config of device d: the error it raises, None when it returns
_validate_config(d) ==
    IF /\ ~config.eject_coil[d]
       /\ ~config.hold_coil[d]
       /\ ~config.mechanical_eject[d]
    THEN "Device needs an eject_coil, a hold_coil, or mechanical_eject"
    ELSE IF config.ball_switches[d] > 1 /\ config.mechanical_eject[d]
    THEN "mechanical_eject can only be used with 1 ball switch"
    \* min() of the values of an empty dict
    ELSE IF config.eject_timeouts[d] = <<>> THEN "ValueError"
    ELSE IF config.exit_count_delay[d] > Min(Range(config.eject_timeouts[d]))
    THEN "all eject_timeouts have to be larger than exit_count_delay"
    ELSE IF config.entrance_count_delay[d]
                > Min(Range(config.eject_timeouts[d]))
    THEN "all eject_timeouts have to be larger than entrance_count_delay"
    ELSE IF Max(Range(config.eject_timeouts[d]))
                > Min(Range(config.ball_missing_timeouts[d]))
    THEN "all ball_missing_timeouts have to be larger than all eject_timeouts"
    ELSE IF Max(Range(config.ball_missing_timeouts[d])) > IncomingBallTimeout
    THEN "incoming ball timeout has to be larger than all ball_missing_timeouts"
    ELSE IF config.confirm_eject_type[d] = "switch"
            /\ ~config.confirm_eject_switch[d]
    THEN "confirm_eject_type switch needs a confirm_eject_switch"
    ELSE IF "drain" \in config.tags[d] /\ "trough" \notin config.tags[d]
            /\ find_next_trough(d) \in {None, "_no_return_"}
    THEN IF find_next_trough(d) = None
         THEN "No path to trough but device is tagged as drain"
         ELSE "RecursionError"
    ELSE IF "drain" \notin config.tags[d] /\ "trough" \notin config.tags[d]
            /\ find_path_to_target(d, config.target_on_unexpected_ball[d])
                   \in {<<>>, Diverge}
    THEN IF find_path_to_target(d, config.target_on_unexpected_ball[d]) = <<>>
         THEN "has no path to target_on_unexpected_ball"
         ELSE "RecursionError"
    ELSE None

\* every ball device of the machine was constructed
Constructed == \A d \in BallDevices : _validate_config(d) = None

\* the devices of a machine at rest: tasks idle, nothing queued or in flight
AtRest(nodes) ==
    /\ state = [d \in nodes |-> IF is_playfield(d) THEN "playfield" ELSE "idle"]
    /\ pc = [d \in nodes |-> IF is_playfield(d) THEN "playfield"
                             ELSE "idle_wait"]
    /\ jam_active = [d \in nodes |-> FALSE]
    /\ eject_queue = [d \in nodes |-> <<>>]
    /\ mechanical_eject_in_progress = [d \in nodes |-> FALSE]
    /\ trigger_event = [d \in nodes |-> None]
    /\ num_eject_attempts = [d \in nodes |-> 0]
    /\ jam_switch_state_during_eject = [d \in nodes |-> FALSE]
    /\ ball_requests = [d \in nodes |-> <<>>]
    /\ eject_request_condition = [d \in nodes |-> FALSE]
    /\ eject_success_condition = [d \in nodes |-> FALSE]
    /\ armed = [d \in nodes |-> {}]
    /\ woken = [d \in nodes |-> {}]
    /\ handlers = [d \in nodes |-> {}]
    /\ posted = [d \in nodes |-> [eject_broken |-> 0, ball_missing |-> 0,
                                  ball_lost |-> 0, ball_eject_success |-> 0,
                                  ball_eject_failed_noretry |-> 0]]
    /\ log = [d \in nodes |-> <<>>]
    /\ attempt_log = [d \in nodes |-> <<>>]
    /\ attempts = [d \in nodes |-> 0]
    /\ started_busy = [d \in nodes |-> FALSE]
    /\ ejector_fired = [d \in nodes |-> 0]
    /\ missing_added = [d \in nodes |-> 0]
    /\ confirm_calls = [d \in nodes |-> 0]
    /\ crashed = [d \in nodes |-> None]
    /\ calls = 0
    /\ env = 0
    /\ chain = NoChain
    /\ routed_broken = FALSE
    /\ query = NoQuery

\* ------------------------------------------- _balls_added_callback alone
InitRoute ==
    /\ config \in {MkMachine(g, tg, auto_fire) :
                      g \in Graphs, tg \in TagMaps, auto_fire \in BOOLEAN}
    /\ Constructed
    /\ balls = [d \in Nodes |-> 0]
    /\ counted = balls
    /\ available_balls = [d \in Nodes |-> 0]
    /\ incoming_balls = [d \in Nodes |-> <<>>]
    /\ eject_in_progress_target = [d \in Nodes |-> None]
    /\ AtRest(Nodes)

\* what the caller sees when the call returns: the state before the call,
\* the exception, the balldevice_balls_available events the call posted
RouteObserved(r, fn, d, new_balls, unclaimed_balls) ==
    [r EXCEPT !.calls = @ + 1,
              !.raised = None,
              !.query = [fn |-> fn, self |-> d, new_balls |-> new_balls,
                         unclaimed_balls |-> unclaimed_balls,
                         available_balls |-> available_balls,
                         queued |-> eject_queue,
                         raised |-> r.raised,
                         posts |-> r.balls_available]]

\* the ball_enter relay of d came back with new_balls and unclaimed_balls
BallsAdded(d, new_balls, unclaimed_balls) ==
    /\ calls < MaxCalls
    /\ unclaimed_balls <= new_balls
    /\ Commit(DeliverBallsAvailable(
           RouteObserved(
               _balls_added_callback(
                   [S EXCEPT !.balls[d] = @ + new_balls,
                             !.counted[d] = @ + new_balls],
                   d, new_balls, unclaimed_balls),
               "_balls_added_callback", d, new_balls, unclaimed_balls)))

\* the counter of d reports one ball that nobody announced
UnexpectedBall(d) ==
    /\ calls < MaxCalls
    /\ balls[d] = 0
    /\ Commit(DeliverBallsAvailable(
           RouteObserved(
               unexpected_ball_received(
                   [S EXCEPT !.balls[d] = @ + 1, !.counted[d] = @ + 1], d),
               "unexpected_ball_received", d, 1, 1)))

NextRoute ==
    \/ \E d \in BallDevices, new_balls \in 1..MaxNew,
          unclaimed_balls \in 0..MaxNew :
           BallsAdded(d, new_balls, unclaimed_balls)
    \/ \E d \in BallDevices : UnexpectedBall(d)

SpecRoute == InitRoute /\ [][NextRoute]_vars

\* --------------------------------------------------- graph searches alone
InitGraph ==
    /\ config \in {MkMachine(g, tg, TRUE) : g \in Graphs, tg \in TagMaps}
    /\ balls = [d \in Nodes |-> 0]
    /\ counted = balls
    /\ available_balls = [d \in Nodes |-> 0]
    /\ incoming_balls = [d \in Nodes |-> <<>>]
    /\ eject_in_progress_target = [d \in Nodes |-> None]
    /\ AtRest(Nodes)

\* d.find_path_to_target(target)
FindPathToTarget(d, target) ==
    /\ query.fn = None
    /\ Commit([S EXCEPT !.query = [fn |-> "find_path_to_target", self |-> d,
                                   target |-> target,
                                   result |-> find_path_to_target(d, target)]])

\* d.find_next_trough()
FindNextTrough(d) ==
    /\ query.fn = None
    /\ Commit([S EXCEPT !.query = [fn |-> "find_next_trough", self |-> d,
                                   result |-> find_next_trough(d)]])

\* the exception of the routing of one unclaimed ball that entered d
RoutingRaises(s, d) ==
    RouteUnclaimed([s EXCEPT !.available_balls[d] = @ + 1], d, 1).raised

\* d is constructed: _configure_targets validates its configuration; a
\* device that was accepted later routes an unclaimed ball
ValidateConfig(d) ==
    /\ query.fn = None
    /\ Commit([S EXCEPT !.query = [fn |-> "_validate_config", self |-> d,
                                   result |-> _validate_config(d),
                                   routing |-> IF _validate_config(d) = None
                                               THEN RoutingRaises(S, d)
                                               ELSE None]])

NextGraph ==
    \/ \E d \in BallDevices, target \in Nodes : FindPathToTarget(d, target)
    \/ \E d \in BallDevices : FindNextTrough(d)
    \/ \E d \in BallDevices : ValidateConfig(d)

SpecGraph == InitGraph /\ [][NextGraph]_vars

\* ------------------------------------------- find_one_available_ball alone
\* no device, one device or two devices have one available ball
AvailableMaps ==
    {[d \in Nodes |-> IF d \in set THEN 1 ELSE 0] :
        set \in {{}, {"T"}, {"P"}, {"A"}, {"B"}, {"PF"}, {"T", "B"}, {"P", "A"}}}

InitSource ==
    /\ config \in {MkMachine(g, TagsOf({"T"}, {"P"}), TRUE) : g \in Graphs}
    /\ available_balls \in AvailableMaps
    /\ balls = available_balls
    /\ counted = balls
    /\ incoming_balls = [d \in Nodes |-> <<>>]
    /\ eject_in_progress_target = [d \in Nodes |-> None]
    /\ AtRest(Nodes)

\* d.find_one_available_ball()
FindOneAvailableBall(d) ==
    /\ query.fn = None
    /\ Commit([S EXCEPT !.query = [fn |-> "find_one_available_ball",
                                   self |-> d,
                                   result |-> find_one_available_ball(
                                                  S, d, <<>>)]])

NextSource == \E d \in Nodes : FindOneAvailableBall(d)

SpecSource == InitSource /\ [][NextSource]_vars

\* -------------------------------------- get_additional_ball_capacity alone
MaxIncoming == 2     \* balls announced to one device

\* a device holds up to its capacity, has up to MaxIncoming balls announced
\* and may have an eject in progress to its first target
InitCapacity ==
    /\ config \in Configs
    /\ balls \in [Dev -> 0..2]
    /\ \A d \in Dev : balls[d] <= config.ball_capacity[d]
    /\ balls["PF"] = 0
    /\ counted = balls
    /\ available_balls = balls
    /\ incoming_balls \in
           [Dev -> {[i \in 1..n |-> [source |-> "T", expired |-> FALSE]] :
                       n \in 0..MaxIncoming}]
    /\ incoming_balls["PF"] = <<>>
    /\ eject_in_progress_target \in [Dev -> Dev \cup {None}]
    /\ \A d \in Dev :
           \/ eject_in_progress_target[d] = None
           \/ /\ config.eject_targets[d] # <<>>
              /\ eject_in_progress_target[d] = config.eject_targets[d][1]
    /\ AtRest(Dev)

\* d.get_additional_ball_capacity()
GetAdditionalBallCapacity(d) ==
    /\ query.fn = None
    /\ Commit([S EXCEPT !.query = [fn |-> "get_additional_ball_capacity",
                                   self |-> d,
                                   result |-> get_additional_ball_capacity(
                                                  S, d)]])

NextCapacity == \E d \in Devices : GetAdditionalBallCapacity(d)

SpecCapacity == InitCapacity /\ [][NextCapacity]_vars

\* ------------------------------------------------- _validate_config alone
\* the machine T -> (P, A), P -> playfield, A -> playfield, B -> playfield,
\* every device configured with the same ejector options and timing values;
\* a device with two eject targets has two timeouts of each kind
MkTimedMachine(coil, hold, mech, switches, exit_ms, entrance_ms, eject_ms, missing_ms) ==
    [MkMachine([d \in Nodes |-> IF d = "T" THEN <<"P", "A">>
                                ELSE IF is_playfield(d) THEN <<>>
                                ELSE <<"PF">>],
               TagsOf({"T"}, {}), TRUE)
        EXCEPT !.eject_coil = [d \in Nodes |-> coil],
               !.hold_coil = [d \in Nodes |-> hold],
               !.mechanical_eject = [d \in Nodes |-> mech],
               !.ejector = [d \in Nodes |-> coil \/ hold],
               !.ball_switches = [d \in Nodes |-> switches],
               !.exit_count_delay = [d \in Nodes |-> exit_ms],
               !.entrance_count_delay = [d \in Nodes |-> entrance_ms],
               !.eject_timeouts =
                   [d \in Nodes |-> IF d = "T" THEN eject_ms
                                    ELSE IF is_playfield(d) THEN <<>>
                                    ELSE <<eject_ms[1]>>],
               !.ball_missing_timeouts =
                   [d \in Nodes |-> IF d = "T" THEN missing_ms
                                    ELSE IF is_playfield(d) THEN <<>>
                                    ELSE <<missing_ms[1]>>]]

InitValidate ==
    /\ config \in {MkTimedMachine(coil, hold, mech, switches, exit_ms,
                                  entrance_ms, eject_ms, missing_ms) :
                      coil \in BOOLEAN, hold \in BOOLEAN, mech \in BOOLEAN,
                      switches \in {1, 2},
                      exit_ms \in {500, 10000, 20000},
                      entrance_ms \in {500, 10000, 20000},
                      eject_ms \in [1..2 -> {10000, 20000}],
                      missing_ms \in [1..2 -> {20000, 70000}]}
    /\ balls = [d \in Nodes |-> 0]
    /\ counted = balls
    /\ available_balls = [d \in Nodes |-> 0]
    /\ incoming_balls = [d \in Nodes |-> <<>>]
    /\ eject_in_progress_target = [d \in Nodes |-> None]
    /\ AtRest(Nodes)

NextValidate == \E d \in BallDevices : ValidateConfig(d)

SpecValidate == InitValidate /\ [][NextValidate]_vars

\* ------------------------------------------ _setup_eject_confirmation alone
ConfirmEjectTypes == {"target", "switch", "event", "fake", "playfield"}

\* T -> P -> playfield with every confirm_eject_type, with and without ball
\* switches; a ball may be announced to P by T
InitConfirm ==
    /\ config \in {[MkConfig(mech, 1, FALSE, confirm, FALSE)
                       EXCEPT !.ball_switches =
                           [d \in Dev |-> IF switches THEN @[d] ELSE 0]] :
                      mech \in BOOLEAN, confirm \in ConfirmEjectTypes,
                      switches \in BOOLEAN}
    /\ balls = [d \in Dev |-> IF is_playfield(d) THEN 0 ELSE 1]
    /\ counted = balls
    /\ available_balls = balls
    /\ incoming_balls \in
           [Dev -> {<<>>, <<[source |-> "T", expired |-> FALSE]>>}]
    /\ \A d \in Dev : d # "P" => incoming_balls[d] = <<>>
    /\ eject_in_progress_target = [d \in Dev |-> None]
    /\ AtRest(Dev)

\* what the eject of d has armed once its confirmation is set up
ConfirmObserved(r, fn, d, target) ==
    [r EXCEPT !.raised = None,
              !.query = [fn |-> fn, self |-> d, target |-> target,
                         handlers |-> r.handlers[d], raised |-> r.raised]]

\* the ball of an eject of d to its target left: _ball_left sets up the
\* confirmation
BallLeft(d, mechanical) ==
    /\ query.fn = None
    /\ mechanical => config.mechanical_eject[d]
    /\ Commit(ConfirmObserved(
                  _ball_left([S EXCEPT
                                 !.state[d] = "ejecting",
                                 !.eject_in_progress_target[d] =
                                     config.eject_targets[d][1],
                                 !.mechanical_eject_in_progress[d] = mechanical,
                                 !.balls[d] = @ - 1, !.counted[d] = @ - 1],
                             d, TRUE),
                  "_ball_left", d, config.eject_targets[d][1]))

\* a ball is on its way to the mechanical device d:
\* _waiting_for_ball_mechanical sets up the confirmation
WaitingForBallMechanical(d) ==
    /\ query.fn = None
    /\ config.mechanical_eject[d]
    /\ Commit(ConfirmObserved(
                  _waiting_for_ball_mechanical(S, d, "idle"),
                  "_waiting_for_ball_mechanical", d,
                  config.eject_targets[d][1]))

NextConfirm ==
    \/ \E d \in Devices, mechanical \in BOOLEAN : BallLeft(d, mechanical)
    \/ \E d \in Devices : WaitingForBallMechanical(d)

SpecConfirm == InitConfirm /\ [][NextConfirm]_vars

\* ------------------------------------ a machine with stray balls on its own
MaxStray == 3        \* balls that appear or vanish unplanned

\* a trough with two balls feeds a plunger with a coil; nothing is mechanical
InitStray ==
    /\ Init
    /\ config = MkConfig(FALSE, 2, TRUE, "target", FALSE)
    /\ counted = [d \in Dev |-> IF d = "T" THEN 2 ELSE 0]

\* a ball that nobody ejected shows up in d
StrayBallEnters(d) ==
    /\ Quiet
    /\ env < MaxStray
    /\ counted[d] < config.ball_capacity[d]
    /\ Commit(Signal([S EXCEPT !.counted[d] = @ + 1, !.env = @ + 1],
                     d, "activity"))

\* a ball is taken out of d by hand
StrayBallVanishes(d) ==
    /\ Quiet
    /\ env < MaxStray
    /\ counted[d] > 0
    /\ pc[d] # "wait_left"
    /\ Commit(Signal([S EXCEPT !.counted[d] = @ - 1, !.env = @ + 1],
                     d, "activity"))

NextStray ==
    \/ \E d \in Devices : InitializeAsync(d)
    \/ \E d \in Devices : StateIdle(d)
    \/ \E d \in Devices, event \in WakeEvents : IdleWake(d, event)
    \/ \E d \in Devices, event \in WakeEvents : WaitingForBallWake(d, event)
    \/ \E d \in Devices : BallLeaves(d)
    \/ \E d \in Devices : ConfirmTimeout(d)
    \/ \E d \in Devices, event \in WakeEvents : FailedConfirmWake(d, event)
    \/ \E d \in Devices : StrayBallEnters(d)
    \/ \E d \in Devices : StrayBallVanishes(d)
    \/ RequestBall("P")

SpecStray == InitStray /\ [][NextStray]_vars

\* ------------------------------------------------------------------ claims
Failures(d) ==
    Count(log[d], "ball_eject_failed") + Count(log[d], "ball_eject_failed_noretry")

AvailableBetweenZeroAndBalls ==
    \A d \in Devices :
        0 <= available_balls[d] /\ available_balls[d] <= balls[d]

\* C2, amended: available_balls of every device, the playfield included, is
\* never negative.
AvailableNeverNegative == \A d \in Dev : available_balls[d] >= 0

\* a chain took the last available ball of a device that still holds it
AvailableNeverNegativeWitness ==
    \E d \in Devices :
        /\ available_balls[d] = 0
        /\ balls[d] > 0
        /\ eject_queue[d] # <<>>

\* C3: a setup_eject_chain(path) that returns has taken exactly one
\* available ball from the first device of the path, added exactly one to the
\* last, left available_balls of every other device as it was, and appended
\* exactly one entry, targeting the successor on the path, to the eject queue
\* of every device on the path but the last; other queues are unchanged.
ChainFrameEffect ==
    (chain.path # <<>> /\ chain.raised = None) =>
        LET path == chain.path
            n == Len(path)
            hops == {path[i] : i \in 1..(n - 1)}
        IN /\ n >= 2
           /\ available_balls[path[1]] = chain.available_balls[path[1]] - 1
           /\ available_balls[path[n]] = chain.available_balls[path[n]] + 1
           /\ \A d \in Dev \ {path[1], path[n]} :
                  available_balls[d] = chain.available_balls[d]
           /\ \A i \in 1..(n - 1) :
                  /\ Len(eject_queue[path[i]]) = Len(chain.queued[path[i]]) + 1
                  /\ SubSeq(eject_queue[path[i]], 1, Len(chain.queued[path[i]]))
                         = chain.queued[path[i]]
                  /\ eject_queue[path[i]][Len(eject_queue[path[i]])].target
                         = path[i + 1]
           /\ \A d \in Dev \ hops : eject_queue[d] = chain.queued[d]

\* a second chain over three devices returned: the queues of its two hops
\* already held an entry
ChainFrameEffectWitness ==
    /\ chain.raised = None
    /\ Len(chain.path) = 3
    /\ chain.queued[chain.path[1]] # <<>>
    /\ chain.queued[chain.path[2]] # <<>>

\* C4: no eject was ever started (by _ejecting, _handle_missing_balls or
\* _waiting_for_ball_mechanical) while eject_in_progress_target was set.
OneEjectInProgress == \A d \in Devices : ~started_busy[d]

\* a retry started after the failed attempt before it was cancelled
OneEjectInProgressWitness ==
    \E d \in Devices :
        /\ state[d] = "ejecting"
        /\ attempts[d] = 2
        /\ eject_in_progress_target[d] # None
        /\ ~started_busy[d]

\* C5: for a device with max_eject_attempts = N > 0 at most N
\* ball_eject_failed events are posted for the eject taken from the queue.
BoundedRetry ==
    \A d \in Devices :
        config.max_eject_attempts[d] > 0 =>
            Failures(d) <= config.max_eject_attempts[d]

\* the N-th failure of an eject with N = 2 was posted and the device gave up
BoundedRetryWitness ==
    \E d \in Devices :
        /\ config.max_eject_attempts[d] = 2
        /\ Failures(d) = 2
        /\ log[d][Len(log[d]) - 1] = "ball_eject_permanent_failure"

\* C6: a device with max_eject_attempts = 0 is never eject_broken; a device
\* with max_eject_attempts = N > 0 is eject_broken exactly when the N-th
\* attempt of one eject has failed in failed_eject, and then its last posts
\* are ball_eject_failed, ball_eject_permanent_failure, eject_broken in this
\* order; a retry follows a ball_eject_failed and is at most the N-th attempt.
FailedEjectPolicy ==
    \A d \in Devices :
        LET N == config.max_eject_attempts[d]
            n == Len(log[d])
        IN /\ N = 0 => state[d] # "eject_broken"
           /\ state[d] = "eject_broken" =>
                  /\ attempts[d] = N
                  /\ num_eject_attempts[d] = N
                  /\ n >= 3
                  /\ log[d][n - 2] = "ball_eject_failed"
                  /\ log[d][n - 1] = "ball_eject_permanent_failure"
                  /\ log[d][n] = "eject_broken"
           /\ (N > 0 /\ Count(log[d], "ball_eject_failed") >= N
               /\ ~mechanical_eject_in_progress[d]
               /\ pc[d] # "crashed") =>
                  state[d] = "eject_broken"
           /\ (state[d] = "ejecting" /\ attempts[d] > 1) =>
                  /\ log[d][n] = "ball_eject_failed"
                  /\ N = 0 \/ attempts[d] <= N
                  /\ Count(log[d], "ball_eject_failed") = attempts[d] - 1

\* the second attempt of an eject with max_eject_attempts = 2 failed
FailedEjectPolicyWitness ==
    \E d \in Devices :
        /\ state[d] = "eject_broken"
        /\ config.max_eject_attempts[d] = 2
        /\ attempts[d] = 2

\* C7: eject_broken is terminal.  From a state in which a device is
\* eject_broken, every step leaves it eject_broken with its task ended, posts
\* no second eject_broken event, does not actuate its ejector, starts no
\* eject attempt and removes nothing from its eject queue.
BrokenIsTerminal ==
    [][\A d \in Devices :
           state[d] = "eject_broken" =>
               /\ state'[d] = "eject_broken"
               /\ pc'[d] = "done"
               /\ posted[d].eject_broken = 1
               /\ posted'[d].eject_broken = 1
               /\ ejector_fired'[d] = ejector_fired[d]
               /\ num_eject_attempts'[d] = num_eject_attempts[d]
               /\ eject_in_progress_target'[d] = None
               /\ Len(eject_queue'[d]) >= Len(eject_queue[d])]_vars

\* a call of the game logic queued an eject on a device that was broken
BrokenIsTerminalWitness ==
    /\ routed_broken
    /\ \E d \in Devices : state[d] = "eject_broken" /\ Len(eject_queue[d]) > 1

\* C8: once the confirmation of an eject in progress was delivered to
\* eject_success, the source has posted ball_eject_success exactly once.
ConfirmedEjectPostsSuccess ==
    \A d \in Devices :
        confirm_calls[d] = 1 => posted[d].ball_eject_success = 1

\* C9: a confirmation handler or delay is registered only while the attempt
\* it was registered for is in progress and waits for its confirmation:
\* after _cancel_eject_confirmation none is left to fire, and the next
\* attempt starts with none.
NoStaleConfirmation ==
    \A d \in Devices :
        handlers[d] # {} =>
            /\ eject_in_progress_target[d] # None
            /\ pc[d] \in {"ball_left", "failed_confirm", "mechanical_from_idle",
                          "mechanical_from_waiting", "crashed"}

\* the confirmation of an attempt timed out, the ball was reported missing
\* and the confirmation cancelled: nothing is registered any more
NoStaleConfirmationWitness ==
    \E d \in Devices :
        /\ state[d] = "eject_failed"
        /\ pc[d] = "idle_count"
        /\ posted[d].ball_missing > 0
        /\ handlers[d] = {}

\* C10: ball loss is reported.  When the task of an idle device without
\* mechanical_eject runs while its counter shows k balls less than it handles
\* and no eject is in progress, and when a confirmation times out in
\* failed_confirm, the device posts balldevice_ball_missing with the number
\* of lost balls (k, or 1) and passes that number to add_missing_balls of its
\* ball_missing_target; the idle device reduces its handled count by k, and
\* after the timeout the count stays reduced by the one ball that left.
LossReported ==
    [][\A d \in Devices :
           LET lost == balls[d] - counted[d]
               target == config.ball_missing_target[d]
           IN /\ (/\ pc[d] \in {"start", "idle_count"}
                  /\ ~config.mechanical_eject[d]
                  /\ eject_in_progress_target[d] = None
                  /\ lost > 0
                  /\ <<state[d], pc[d], balls[d], posted[d]>>'
                         # <<state[d], pc[d], balls[d], posted[d]>>)
                 => /\ balls'[d] = balls[d] - lost
                    /\ posted'[d].ball_missing = posted[d].ball_missing + lost
                    /\ missing_added'[target] = missing_added[target] + lost
              /\ (pc[d] = "failed_confirm" /\ pc'[d] = "idle_count")
                 => /\ balls'[d] = balls[d]
                    /\ posted'[d].ball_missing = posted[d].ball_missing + 1
                    /\ missing_added'[target] = missing_added[target] + 1]_vars

\* an idle device saw a ball vanish and reported it
LossReportedWitness ==
    \E d \in Devices :
        /\ state[d] = "missing_balls"
        /\ posted[d].ball_missing = 1
        /\ missing_added[config.ball_missing_target[d]] = 1
        /\ balls[d] = counted[d]

\* C11: when _balls_added_callback(new_balls, unclaimed_balls) returns,
\* available_balls of the device was increased by new_balls; a device tagged
\* trough, or one with no unclaimed ball, queued nothing; a device tagged
\* drain and not trough queued one eject per unclaimed ball along the path to
\* find_next_trough(), not player-controlled; any other device queued one
\* chain per unclaimed ball along find_path_to_target of its
\* target_on_unexpected_ball, whose entries are player-controlled (on the
\* devices that can be) exactly when auto_fire_on_unexpected_ball is false.
\* Every chain moves one available ball from the device to the end of the path.
UnclaimedBallRouting ==
    (query.fn = "_balls_added_callback" /\ query.raised = None) =>
        LET d == query.self
            n == query.new_balls
            k == query.unclaimed_balls
            kept == k = 0 \/ "trough" \in config.tags[d]
            drain == "drain" \in config.tags[d]
            path == IF kept THEN <<d, d>>
                    ELSE IF drain
                    THEN find_path_to_target(d, find_next_trough(d))
                    ELSE find_path_to_target(
                             d, config.target_on_unexpected_ball[d])
            last == path[Len(path)]
            hops == {path[i] : i \in 1..(Len(path) - 1)}
            marked == ~drain /\ ~config.auto_fire_on_unexpected_ball[d]
        IN IF kept
           THEN /\ eject_queue = query.queued
                /\ available_balls =
                       [query.available_balls EXCEPT ![d] = @ + n]
           ELSE /\ Len(path) >= 2
                /\ path[1] = d
                /\ last = IF drain THEN find_next_trough(d)
                          ELSE config.target_on_unexpected_ball[d]
                /\ available_balls =
                       [query.available_balls EXCEPT ![d] = @ + n - k,
                                                     ![last] = @ + k]
                /\ \A x \in Nodes \ hops : eject_queue[x] = query.queued[x]
                /\ \A i \in 1..(Len(path) - 1) :
                       LET x == path[i]
                           old == Len(query.queued[x])
                       IN /\ Len(eject_queue[x]) = old + k
                          /\ SubSeq(eject_queue[x], 1, old) = query.queued[x]
                          /\ \A j \in (old + 1)..(old + k) :
                                 /\ eject_queue[x][j].target = path[i + 1]
                                 /\ (\/ eject_queue[x][j].mechanical
                                     \/ eject_queue[x][j].trigger # None)
                                    <=> (/\ marked
                                         /\ \/ config.mechanical_eject[x]
                                            \/ config.player_controlled_eject_event[x]
                                                   # None)

\* two unclaimed balls were routed over a device that the player fires, on a
\* machine that does not fire unexpected balls by itself
UnclaimedBallRoutingWitness ==
    /\ query.fn = "_balls_added_callback"
    /\ query.raised = None
    /\ query.unclaimed_balls = 2
    /\ config.tags[query.self] = {}
    /\ \E x \in {"P", "A"} :
           /\ x # query.self
           /\ Len(eject_queue[x]) = 2
           /\ eject_queue[x][2].mechanical \/ eject_queue[x][2].trigger # None

\* C12 as stated: a device that held no ball, registered one unexpected
\* ball and routed it toward its target_on_unexpected_ball has posted
\* balldevice_balls_available exactly once.
UnexpectedBallPostsOnce ==
    (/\ query.fn = "unexpected_ball_received"
     /\ query.raised = None
     /\ config.tags[query.self] \cap {"trough", "drain"} = {})
        => query.posts = 1

\* C12, amended: a device that held no ball and registered one unexpected
\* ball has posted balldevice_balls_available twice when it routed the ball
\* (once in setup_eject_chain, once at the end of _balls_added_callback) and
\* once when it is tagged trough and keeps the ball.
UnexpectedBallPosts ==
    (query.fn = "unexpected_ball_received" /\ query.raised = None) =>
        query.posts = IF "trough" \in config.tags[query.self] THEN 1 ELSE 2

\* an untagged device routed its unexpected ball to the playfield over
\* another device
UnexpectedBallPostsWitness ==
    /\ query.fn = "unexpected_ball_received"
    /\ query.raised = None
    /\ config.tags[query.self] = {}
    /\ available_balls["PF"] = 1
    /\ available_balls[query.self] = 0
    /\ \E x \in BallDevices \ {query.self} : Len(eject_queue[x]) = 1

\* C13: when the idle loop of a device finds that the deadline of an incoming
\* ball has passed while its counter saw no ball arrive, the ball is treated
\* as lost: with no available ball the head of eject_queue is removed and
\* ball_lost is posted for it, otherwise available_balls is decremented by 1;
\* nothing else is posted for the expiry (no ball_missing) and no eject is
\* started.
IncomingExpiryHandled ==
    [][\A d \in Devices :
           (/\ pc[d] = "idle_count"
            /\ state[d] = "idle"
            /\ balls[d] = counted[d]
            /\ incoming_balls[d] # <<>>
            /\ Head(incoming_balls[d]).expired
            /\ pc'[d] # pc[d])
           => /\ posted'[d].ball_missing = posted[d].ball_missing
              /\ eject_in_progress_target'[d] = None
              /\ IF available_balls[d] > 0
                 THEN /\ available_balls'[d] = available_balls[d] - 1
                      /\ eject_queue'[d] = eject_queue[d]
                 ELSE /\ eject_queue[d] # <<>>
                      /\ eject_queue'[d] = Tail(eject_queue[d])
                      /\ posted'[d].ball_lost = posted[d].ball_lost + 1]_vars

\* the devices an eject of x can go to
Succ(x) == Range(config.eject_targets[x])

RECURSIVE Closure(_, _)
\* the ball devices from which a device of the set is reached over ball
\* devices, in at most n more hops
Closure(set, n) ==
    IF n = 0 THEN set
    ELSE Closure(set \cup {x \in BallDevices :
                              \E y \in Succ(x) : y \in set /\ ~is_playfield(y)},
                 n - 1)

\* the ball devices from which target is reached with no playfield in between
Reaches(target) ==
    Closure({x \in BallDevices : target \in Succ(x)}, Cardinality(Nodes))

\* the eject targets form a DAG over the ball devices
Acyclic == \A x \in BallDevices : x \notin Reaches(x)

\* the first eject target of x, in declared order, that is a ball device of
\* the set; None if there is none
FirstTargetIn(x, set) ==
    LET ts == config.eject_targets[x]
        ok == {i \in 1..Len(ts) : ts[i] \in set /\ ~is_playfield(ts[i])}
    IN IF ok = {} THEN None ELSE ts[Min(ok)]

\* C14: find_path_to_target(t) on D, on a graph whose ball devices form a
\* DAG, returns; whenever it returns, it returns no path exactly when t is
\* not reachable from D with only ball devices in between, and otherwise a
\* sequence that starts with D, ends with t, follows eject_targets edges, has
\* no playfield inside, and is the first path depth-first: every device of
\* the path that lists t goes to t directly, and every other goes to its
\* first target, in declared order, from which t is reachable.  The path is
\* a function of the graph alone.
FirstPathFound ==
    query.fn = "find_path_to_target" =>
        LET d == query.self
            t == query.target
            p == query.result
            n == Len(p)
        IN /\ Acyclic => p # Diverge
           /\ p # Diverge =>
                  /\ p = <<>> <=> d \notin Reaches(t)
                  /\ p # <<>> =>
                         /\ n >= 2 /\ p[1] = d /\ p[n] = t
                         /\ \A i \in 1..(n - 1) :
                                /\ p[i + 1] \in Succ(p[i])
                                /\ ~is_playfield(p[i])
                                /\ IF t \in Succ(p[i]) THEN i = n - 1
                                   ELSE p[i + 1] = FirstTargetIn(p[i], Reaches(t))
                         /\ p = find_path_to_target(d, t)

\* the search passed over a first eject target that does not lead to the
\* target and returned a path over the second
FirstPathFoundWitness ==
    /\ query.fn = "find_path_to_target"
    /\ Acyclic
    /\ Len(query.result) = 4
    /\ Len(config.eject_targets[query.self]) = 2
    /\ query.result[2] = config.eject_targets[query.self][2]
    /\ ~is_playfield(config.eject_targets[query.self][1])

\* C15: find_one_available_ball on D returns (on every graph, cyclic or
\* not) either False or a path of at least two devices that ends with D,
\* whose first device has an available ball, in which every device is a
\* source device of its successor and no device appears twice, so that D is
\* never the source of the ball it asks for.
AvailableBallPath ==
    query.fn = "find_one_available_ball" =>
        LET d == query.self
            p == query.result
            n == Len(p)
        IN p # <<>> =>
               /\ n >= 2
               /\ p[n] = d
               /\ available_balls[p[1]] > 0
               /\ \A i \in 1..(n - 1) :
                      /\ ~is_playfield(p[i])
                      /\ p[i + 1] \in Range(config.eject_targets[p[i]])
               /\ \A i, j \in 1..n : p[i] = p[j] => i = j

\* on a graph with a cycle through D, D has an available ball of its own
\* and the search returned the ball of a device two hops before D
AvailableBallPathWitness ==
    /\ query.fn = "find_one_available_ball"
    /\ Len(query.result) = 3
    /\ available_balls[query.self] > 0
    /\ query.self \in Reaches(query.self)

\* the devices tagged trough
Troughs == {x \in BallDevices : "trough" \in config.tags[x]}

\* the ball devices from which a trough is reached over ball devices, the
\* troughs included
ReachesTrough == Closure(Troughs, Cardinality(Nodes))

RECURSIVE Hops(_, _)
\* the ball devices n hops from the devices of the set, no trough passed
Hops(set, n) ==
    IF n = 0 THEN set
    ELSE Hops({y \in BallDevices : \E x \in set \ Troughs : y \in Succ(x)},
              n - 1)

\* the troughs the fewest hops from d
NearestTroughs(d) ==
    LET dist == {n \in 0..Cardinality(Nodes) : Hops({d}, n) \cap Troughs # {}}
    IN IF dist = {} THEN {} ELSE Hops({d}, Min(dist)) \cap Troughs

RECURSIVE FirstTrough(_, _)
\* the trough at the end of the walk that goes from every device to its first
\* eject target, in declared order, that leads to a trough
FirstTrough(x, n) ==
    IF x \in Troughs THEN x
    ELSE IF n = 0 \/ FirstTargetIn(x, ReachesTrough) = None THEN None
    ELSE FirstTrough(FirstTargetIn(x, ReachesTrough), n - 1)

\* C16 as stated: find_next_trough() on D returns D when D is tagged trough,
\* otherwise a trough the fewest hops from D along eject_targets with no
\* playfield passed, and False when no trough is reachable (on a machine
\* whose devices were all constructed and form a DAG).
NearestTroughFound ==
    (query.fn = "find_next_trough" /\ Acyclic /\ Constructed) =>
        IF NearestTroughs(query.self) = {} THEN query.result = None
        ELSE query.result \in NearestTroughs(query.self)

\* C16, amended: find_next_trough() on D returns D when D is tagged trough,
\* otherwise the first trough found depth-first in declared eject_targets
\* order with playfields skipped (which need not be the nearest), and False
\* when no trough is reachable; on a DAG it always returns.
FirstTroughFound ==
    query.fn = "find_next_trough" =>
        /\ Acyclic => query.result # "_no_return_"
        /\ query.result # "_no_return_" =>
               /\ query.result = FirstTrough(query.self, Cardinality(Nodes))
               /\ query.result = None <=> query.self \notin ReachesTrough
               /\ query.self \in Troughs => query.result = query.self

\* the search returned a trough two hops away although a trough is listed
\* as the second eject target of the device
FirstTroughFoundWitness ==
    /\ query.fn = "find_next_trough"
    /\ Acyclic
    /\ Constructed
    /\ query.result \in Troughs
    /\ query.result \notin NearestTroughs(query.self)
    /\ query.result \notin Succ(query.self)

\* C17: get_additional_ball_capacity() returns ball_capacity - balls -
\* (number of incoming balls) - (1 if an eject is in progress, else 0) when
\* that value is not negative and 0 otherwise; it is never negative and it
\* is 0 for a device whose held and incoming balls reach its capacity.
AdditionalCapacity ==
    query.fn = "get_additional_ball_capacity" =>
        LET d == query.self
            free == config.ball_capacity[d] - balls[d] - Len(incoming_balls[d])
                    - (IF eject_in_progress_target[d] # None THEN 1 ELSE 0)
        IN /\ query.result = IF free >= 0 THEN free ELSE 0
           /\ query.result >= 0
           /\ balls[d] + Len(incoming_balls[d]) >= config.ball_capacity[d]
                  => query.result = 0

\* a full device with a ball announced and an eject in progress: the
\* difference is negative and 0 is returned
AdditionalCapacityWitness ==
    /\ query.fn = "get_additional_ball_capacity"
    /\ query.result = 0
    /\ balls[query.self] = config.ball_capacity[query.self]
    /\ incoming_balls[query.self] # <<>>
    /\ eject_in_progress_target[query.self] # None

\* the ejector families the configuration of d names
EjectorFamilies(d) ==
    (IF config.eject_coil[d] THEN {"eject_coil"} ELSE {})
    \cup (IF config.hold_coil[d] THEN {"hold_coil"} ELSE {})
    \cup (IF config.mechanical_eject[d] THEN {"mechanical_eject"} ELSE {})

\* C18: _validate_config accepts a device only if its configuration names
\* exactly one ejector family among eject_coil, hold_coil and
\* mechanical_eject=true, and a configuration that names exactly one is not
\* rejected for its ejector.
ExactlyOneEjectorFamily ==
    query.fn = "_validate_config" =>
        /\ query.result = None
               => Cardinality(EjectorFamilies(query.self)) = 1
        /\ Cardinality(EjectorFamilies(query.self)) = 1
               => query.result
                      # "Device needs an eject_coil, a hold_coil, or mechanical_eject"

\* C19: _validate_config accepts a device only if exit_count_delay and
\* entrance_count_delay are both less than every eject timeout and every
\* eject timeout is less than every ball_missing timeout.
TimingStrictlyOrdered ==
    (query.fn = "_validate_config" /\ query.result = None) =>
        LET d == query.self IN
        /\ \A e \in Range(config.eject_timeouts[d]) :
               /\ config.exit_count_delay[d] < e
               /\ config.entrance_count_delay[d] < e
               /\ \A m \in Range(config.ball_missing_timeouts[d]) : e < m

\* C20: a device tagged drain but not trough is rejected at construction
\* unless a trough is reachable from it, a device tagged neither drain nor
\* trough is rejected unless its target_on_unexpected_ball is reachable from
\* it, the two graph errors are raised for no other device, and the routing
\* of an unclaimed ball that later enters an accepted device never raises
\* "Could not find path".
GraphValidated ==
    query.fn = "_validate_config" =>
        LET d == query.self
            drain_only == "drain" \in config.tags[d]
                          /\ "trough" \notin config.tags[d]
            untagged == "drain" \notin config.tags[d]
                        /\ "trough" \notin config.tags[d]
            target == config.target_on_unexpected_ball[d]
        IN /\ (drain_only /\ d \notin ReachesTrough) => query.result # None
           /\ (untagged /\ d \notin Reaches(target)) => query.result # None
           /\ query.result = "No path to trough but device is tagged as drain"
                  => (drain_only /\ d \notin ReachesTrough)
           /\ query.result = "has no path to target_on_unexpected_ball"
                  => (untagged /\ d \notin Reaches(target))
           /\ query.result = None
                  => query.routing \notin {"Could not find path to trough",
                                           "Could not find path to playfield"}

\* a drain that is no trough was accepted, and so was routed; another drain
\* or untagged device of the same machine has no path and would be rejected
GraphValidatedWitness ==
    /\ query.fn = "_validate_config"
    /\ query.result = None
    /\ query.routing = None
    /\ "drain" \in config.tags[query.self]
    /\ "trough" \notin config.tags[query.self]
    /\ \E x \in BallDevices :
           _validate_config(x) \in
               {"No path to trough but device is tagged as drain",
                "has no path to target_on_unexpected_ball"}

\* C21: in every reachable state the state of every ball device is one of
\* the ten names invalid, idle, waiting_for_ball,
\* waiting_for_ball_mechanical, ejecting, ball_left, failed_confirm,
\* failed_eject, missing_balls, eject_broken.
StateIsNamed ==
    \A d \in Devices :
        state[d] \in {"invalid", "idle", "waiting_for_ball",
                      "waiting_for_ball_mechanical", "ejecting", "ball_left",
                      "failed_confirm", "failed_eject", "missing_balls",
                      "eject_broken"}

\* the completion source each confirm_eject_type selects
SelectedSources(type) ==
    IF type = "target" THEN {"target_ball_enter"}
    ELSE IF type = "switch" THEN {"confirm_eject_switch"}
    ELSE IF type = "event" THEN {"confirm_eject_event"}
    ELSE IF type = "fake" THEN {"target_eject_confirmation_timeout"}
    ELSE {"playfield_active", "playfield_confirmation"}

\* C22: once the confirmation of an eject is set up, for every
\* confirm_eject_type and every target, the playfield included, exactly one
\* completion source is armed, and it is the one confirm_eject_type selects.
OneCompletionSource ==
    query.fn \in {"_ball_left", "_waiting_for_ball_mechanical"} =>
        /\ query.raised = None
        /\ Cardinality(query.handlers) = 1
        /\ query.handlers
               \subseteq SelectedSources(config.confirm_eject_type[query.self])

\* C23: while the eject of a device is mechanical, ejector.eject_one_ball()
\* is called only in the step in which the device, waiting for the ball to
\* leave, receives the trigger event of the eject; with no trigger event
\* the coil is never fired for that eject.
MechanicalEjectNotFired ==
    /\ [](\A d \in Devices :
             (mechanical_eject_in_progress[d] /\ trigger_event[d] = None)
                 => ejector_fired[d] = 0)
    /\ [][\A d \in Devices :
             (mechanical_eject_in_progress'[d]
              /\ ejector_fired'[d] > ejector_fired[d])
                 => /\ pc[d] = "wait_left"
                    /\ mechanical_eject_in_progress[d]
                    /\ trigger_event[d] # None
                    /\ "trigger" \in armed[d]
                    /\ ejector_fired'[d] = ejector_fired[d] + 1]_vars

\* the trigger event fired the coil of a mechanical eject; and a mechanical
\* eject without trigger event waits for its ball to leave
MechanicalEjectNotFiredWitness ==
    /\ \E d \in Devices :
           /\ mechanical_eject_in_progress[d]
           /\ pc[d] = "wait_left"
           /\ ejector_fired[d] = 1
    /\ \E cfg \in Configs :
           /\ cfg.mechanical_eject["P"]
           /\ cfg.player_controlled_eject_event["P"] # None
           /\ cfg = config

\* the step takes device d into ejecting, for a first attempt or a retry
EntersEjecting(d) == state'[d] = "ejecting" /\ attempts'[d] # attempts[d]

\* what t.get_additional_ball_capacity() returns after the step
CapacityAfter(t) == get_additional_ball_capacity(S, t)'

\* the round of the loop of _state_idle that d runs in the step ends in the
\* wait of the idle state
StaysIdle(d) == pc[d] \in {"start", "idle_count"} /\ pc'[d] = "idle_wait"

\* C24 as stated: a device enters ejecting, for a first attempt or a retry,
\* only when it holds a ball and the target has capacity for one more; with
\* an eject queued and no ball it enters waiting_for_ball; with a ball and a
\* target without capacity it stays idle with the queued ejects kept.
EjectingNeedsBallAndCapacity ==
    [][\A d \in Devices :
         /\ EntersEjecting(d) =>
                /\ balls'[d] >= 1
                /\ \E t \in Dev : /\ t = eject_in_progress_target'[d]
                                  /\ CapacityAfter(t) > 0
         /\ (StaysIdle(d) /\ eject_queue[d] # <<>>) =>
                /\ balls'[d] >= 1
                /\ \E t \in Dev : /\ t = Head(eject_queue'[d]).target
                                  /\ CapacityAfter(t) = 0
                /\ SubSeq(eject_queue'[d], 1, Len(eject_queue[d]))
                       = eject_queue[d]
         /\ (/\ pc[d] \in {"start", "idle_count"}
             /\ pc'[d] # pc[d]
             /\ eject_queue[d] # <<>>
             /\ balls[d] = 0 /\ counted[d] = 0
             /\ incoming_balls[d] = <<>>) =>
                state'[d] = "waiting_for_ball"]_vars

\* C24 amended: the capacity of the target is asked for before the first
\* attempt of an eject only; a retry enters ejecting from failed_eject (after
\* the eject timed out or the ball came back) with the ball held, whatever
\* the capacity of the target.
FirstAttemptNeedsCapacity ==
    [][\A d \in Devices :
         /\ EntersEjecting(d) =>
                /\ balls'[d] >= 1
                /\ attempts'[d] = 1 =>
                       \E t \in Dev : /\ t = eject_in_progress_target'[d]
                                      /\ CapacityAfter(t) > 0
                /\ attempts'[d] > 1 =>
                       pc[d] \in {"wait_left", "ball_left", "failed_confirm"}
         /\ (StaysIdle(d) /\ eject_queue[d] # <<>>) =>
                /\ balls'[d] >= 1
                /\ \E t \in Dev : /\ t = Head(eject_queue'[d]).target
                                  /\ CapacityAfter(t) = 0
                /\ SubSeq(eject_queue'[d], 1, Len(eject_queue[d]))
                       = eject_queue[d]
         /\ (/\ pc[d] \in {"start", "idle_count"}
             /\ pc'[d] # pc[d]
             /\ eject_queue[d] # <<>>
             /\ balls[d] = 0 /\ counted[d] = 0
             /\ incoming_balls[d] = <<>>) =>
                state'[d] = "waiting_for_ball"]_vars

\* a device retries an eject to a target that has no capacity left
FirstAttemptNeedsCapacityWitness ==
    \E d \in Devices :
        /\ state[d] = "ejecting"
        /\ attempts[d] > 1
        /\ eject_in_progress_target[d] # None
        /\ get_additional_ball_capacity(S, eject_in_progress_target[d]) = 0

\* C25: in an eject attempt of _ejecting the request is taken from the queue
\* and the jam switch read first; with a trigger event and no mechanical
\* eject the trigger event comes next; then ball_eject_attempt is posted and
\* released, then ejecting_ball is posted, and only then is the ejector
\* actuated: no eject_one_ball precedes the ball_eject_attempt of its attempt.
\* (A device that gave up has cleared mechanical_eject_in_progress, so its
\* last attempt can no longer be told apart and is left out.)
AttemptOrdered ==
    \A d \in Devices :
        LET l == attempt_log[d]
            triggered == trigger_event[d] # None
                         /\ ~mechanical_eject_in_progress[d]
            a == IF triggered THEN 4 ELSE 3
        IN (l # <<>> /\ l[1] = "popleft" /\ state[d] # "eject_broken") =>
              /\ l[2] = "jam_switch_state"
              /\ \A i \in 3..Len(l) :
                     /\ l[i] = "trigger_event" /\ ~mechanical_eject_in_progress[d]
                            => (triggered /\ i = 3)
                     /\ l[i] = "ball_eject_attempt" => i = a
                     /\ l[i] = "ejecting_ball" => i = a + 1
                     /\ l[i] = "eject_one_ball" =>
                            /\ i > a + 1
                            /\ l[a] = "ball_eject_attempt"
                            /\ l[a + 1] = "ejecting_ball"
                            /\ triggered => l[3] = "trigger_event"
              /\ pc[d] = "wait_left" =>
                     /\ Len(l) >= a + 1
                     /\ l[a] = "ball_eject_attempt"
                     /\ l[a + 1] = "ejecting_ball"
              /\ pc[d] = "ejecting_trigger" => (triggered /\ Len(l) = 2)

\* an eject that waited for its trigger event has fired the coil
AttemptOrderedWitness ==
    \E d \in Devices :
        /\ pc[d] = "wait_left"
        /\ attempt_log[d] = <<"popleft", "jam_switch_state", "trigger_event",
                              "ball_eject_attempt", "ejecting_ball",
                              "eject_one_ball">>

\* what a step does to a device that waits for its ball to leave: when the
\* counter reports that the ball left, the handled count goes down by one,
\* counter.ejecting_one_ball() is called once and the device is in ball_left;
\* when the eject times out the ball count is kept, ball_eject_failed is
\* posted by failed_eject and the eject is retried or the device gives up
WaitForBallLeftEnds ==
    \A d \in Devices :
        pc[d] = "wait_left" =>
            /\ counted'[d] < counted[d] =>
                   /\ balls'[d] = balls[d] - 1
                   /\ Count(attempt_log'[d], "ejecting_one_ball") = 1
                   /\ state'[d] = "ball_left"
                   /\ pc'[d] = "ball_left"
            /\ log'[d] # log[d] =>
                   /\ "timeout" \in armed[d]
                   /\ balls'[d] = balls[d]
                   /\ log'[d] = Append(log[d], "ball_eject_failed")
                      \/ log'[d] = log[d] \o <<"ball_eject_failed",
                                              "ball_eject_permanent_failure",
                                              "eject_broken">>
                   /\ state'[d] \in {"ejecting", "eject_broken"}

\* C26 as stated: the wait of every eject attempt for its ball to leave is
\* bounded by eject_timeout; a timeout takes the device to failed_eject with
\* its ball count unchanged, and a ball that leaves takes one ball from the
\* handled count, calls counter.ejecting_one_ball() once and takes the device
\* to ball_left.
EveryAttemptTimesOut ==
    /\ [](\A d \in Devices : pc[d] = "wait_left" => "timeout" \in armed[d])
    /\ [][WaitForBallLeftEnds]_vars

\* C26 amended: the wait is bounded by eject_timeout exactly for the ejects
\* that are not mechanical; a mechanical eject waits for its ball to leave
\* without a bound.
CoilAttemptTimesOut ==
    /\ [](\A d \in Devices :
             pc[d] = "wait_left" =>
                 ("timeout" \in armed[d] <=> ~mechanical_eject_in_progress[d]))
    /\ [][WaitForBallLeftEnds]_vars

\* the ball of a mechanical eject, waited for without a bound, left
CoilAttemptTimesOutWitness ==
    \E d \in Devices :
        /\ state[d] = "ball_left"
        /\ mechanical_eject_in_progress[d]
        /\ attempt_log[d] = <<"popleft", "jam_switch_state",
                              "ball_eject_attempt", "ejecting_ball",
                              "ejecting_one_ball">>

\* C27: when the confirmation of the eject reaches a device that waits in
\* ball_left, ball_eject_success is posted, eject_in_progress_target is
\* cleared, num_eject_attempts is reset to 0, the confirmation handlers are
\* removed and the success condition resumes the task, which returns to
\* idle; a device leaves ball_left without a confirmation only by the
\* timeout of the confirmation, into failed_confirm.
BallLeftConfirmed ==
    [][\A d \in Devices :
         pc[d] = "ball_left" =>
             /\ (confirm_calls[d] = 0 /\ confirm_calls'[d] = 1) =>
                    /\ posted'[d].ball_eject_success
                           = posted[d].ball_eject_success + 1
                    /\ eject_in_progress_target'[d] = None
                    /\ num_eject_attempts'[d] = 0
                    /\ handlers'[d] = {}
                    /\ eject_success_condition'[d]
                    /\ "eject_success" \in woken'[d]
             /\ (pc'[d] # "ball_left" /\ ~eject_success_condition[d]) =>
                    "timeout" \in armed[d]]_vars

\* the task of d runs a round of the loop of _failed_confirm in the step:
\* the confirmation timed out in ball_left, or the counter reported activity
\* to the device waiting in failed_confirm
FailedConfirmRound(d) ==
    \/ pc[d] = "ball_left" /\ pc'[d] # "ball_left"
    \/ /\ pc[d] = "failed_confirm"
       /\ "activity" \in woken[d]
       /\ "activity" \notin woken'[d]

\* the jam switch is active and was not when the eject started, or more
\* balls are counted than handled
BallIsBack(d) ==
    \/ /\ config.jam_switch[d]
       /\ ~jam_switch_state_during_eject[d]
       /\ jam_active[d]
    \/ balls[d] < counted[d]

\* C28: a round of the loop of _failed_confirm that finds no success
\* signalled and the ball back (jam switch active now and not at eject time,
\* or more balls counted than handled) adds exactly one ball to the handled
\* count, withdraws the announcement at the target when confirm_eject_type
\* is target, and goes to failed_eject: ball_eject_failed with retry is
\* posted and the eject put back in the queue, from where it is retried at
\* once unless the device gives up.  A success that is signalled is looked at
\* first and ends failed_confirm with no failure; with neither, the device
\* waits in failed_confirm.
ReturnedBallFailsEject ==
    [][\A d \in Devices :
         FailedConfirmRound(d) =>
             LET target == eject_in_progress_target[d]
                 entry == [target |-> target,
                           mechanical |-> mechanical_eject_in_progress[d],
                           trigger |-> trigger_event[d]]
             IN /\ eject_success_condition[d] =>
                       /\ log'[d] = <<>>
                       /\ balls'[d] = balls[d]
                       /\ pc'[d] = "idle_count"
                /\ (~eject_success_condition[d] /\ BallIsBack(d)) =>
                       /\ balls'[d] = balls[d] + 1
                       /\ config.confirm_eject_type[d] = "target" =>
                              incoming_balls'[target]
                                  = RemoveFirst(incoming_balls[target], d)
                       /\ config.confirm_eject_type[d] # "target" =>
                              incoming_balls'[target] = incoming_balls[target]
                       /\ Len(log'[d]) > Len(log[d])
                       /\ log'[d][Len(log[d]) + 1] = "ball_eject_failed"
                       /\ \/ /\ state'[d] = "ejecting"
                             /\ eject_in_progress_target'[d] = target
                             /\ attempts'[d] = attempts[d] + 1
                             /\ eject_queue'[d] = eject_queue[d]
                          \/ /\ state'[d] = "eject_broken"
                             /\ eject_queue'[d] = <<entry>> \o eject_queue[d]
                /\ (~eject_success_condition[d] /\ ~BallIsBack(d)) =>
                       /\ pc'[d] = "failed_confirm"
                       /\ state'[d] = "failed_confirm"
                       /\ balls'[d] = balls[d]
                       /\ log'[d] = log[d]]_vars

\* the jam switch showed that the ball of the last allowed attempt fell
\* back: the ball is counted again and the device gave up with the eject
\* back in its queue
ReturnedBallFailsEjectWitness ==
    \E d \in Devices :
        /\ state[d] = "eject_broken"
        /\ "ejecting_one_ball" \in Range(attempt_log[d])
        /\ jam_active[d] /\ ~jam_switch_state_during_eject[d]
        /\ balls[d] = counted[d] + 1
        /\ eject_queue[d] # <<>>

\* C29: when ball_missing_timeout elapses for a device waiting in
\* failed_confirm with no success signalled, the device posts
\* ball_eject_failed with retry=false once, leaves its eject queue as it is,
\* posts ball_missing for one ball and passes exactly one ball to
\* add_missing_balls of its ball_missing_target, withdraws the announcement
\* at the target when confirm_eject_type is target, clears
\* eject_in_progress_target and the confirmation handlers and returns to the
\* loop of _state_idle; the handled count and num_eject_attempts are not
\* changed and the device is not eject_broken.
MissingBallGivenUp ==
    [][\A d \in Devices :
         (/\ pc[d] = "failed_confirm"
          /\ pc'[d] # "failed_confirm"
          /\ ~eject_success_condition[d]
          /\ "activity" \notin woken[d]) =>
             LET target == eject_in_progress_target[d]
                 missing == config.ball_missing_target[d]
             IN /\ posted'[d].ball_eject_failed_noretry
                       = posted[d].ball_eject_failed_noretry + 1
                /\ eject_queue'[d] = eject_queue[d]
                /\ posted'[d].ball_missing = posted[d].ball_missing + 1
                /\ missing_added'[missing] = missing_added[missing] + 1
                /\ incoming_balls'[target] =
                       IF config.confirm_eject_type[d] = "target"
                       THEN RemoveFirst(incoming_balls[target], d)
                       ELSE incoming_balls[target]
                /\ eject_in_progress_target'[d] = None
                /\ handlers'[d] = {}
                /\ pc'[d] = "idle_count"
                /\ state'[d] # "eject_broken"
                /\ posted'[d].eject_broken = posted[d].eject_broken
                /\ balls'[d] = balls[d]
                /\ num_eject_attempts'[d] = num_eject_attempts[d]]_vars

\* the ball of an eject was given up after ball_missing_timeout
MissingBallGivenUpWitness ==
    \E d \in Devices :
        /\ posted[d].ball_eject_failed_noretry = 1
        /\ posted[d].ball_missing = 1
        /\ missing_added[config.ball_missing_target[d]] = 1
        /\ pc[d] = "idle_count"
        /\ eject_in_progress_target[d] = None
        /\ state[d] # "eject_broken"

\* the loop of _state_idle counts fewer balls than d holds while d has no
\* eject in progress
CountWentDown(d) ==
    /\ StateIdle(d)
    /\ balls[d] > counted[d]
    /\ balls[d] >= 0
    /\ eject_in_progress_target[d] = None

\* C30: when the loop of _state_idle of a device with mechanical_eject finds
\* fewer balls than before and no eject is in progress, the device reports no
\* ball missing: it marks a mechanical eject in progress to the first of its
\* eject_targets, adds one to available_balls of that target, posts
\* ball_eject_attempt and goes on in ball_left; a device without
\* mechanical_eject reports the difference to ball_missing and to its
\* ball_missing_target and starts no eject.
MissingBallsHandled ==
    [][\A d \in Devices :
         CountWentDown(d) =>
             LET target == config.eject_targets[d][1]
                 missing == config.ball_missing_target[d]
                 n == balls[d] - counted[d]
             IN IF config.mechanical_eject[d]
                THEN /\ posted'[d].ball_missing = posted[d].ball_missing
                     /\ missing_added' = missing_added
                     /\ mechanical_eject_in_progress'[d]
                     /\ eject_in_progress_target'[d] = target
                     /\ available_balls'[target] = available_balls[target] + 1
                     /\ attempt_log'[d] = <<"ball_eject_attempt", "ejecting_ball">>
                     /\ ejector_fired'[d] = ejector_fired[d]
                     /\ balls'[d] = counted[d]
                     /\ pc'[d] = "ball_left"
                     /\ state'[d] = "ball_left"
                ELSE /\ posted'[d].ball_missing = posted[d].ball_missing + n
                     /\ missing_added'[missing] = missing_added[missing] + n
                     /\ eject_in_progress_target'[d] = None
                     /\ attempt_log'[d] = <<>>
                     /\ available_balls' = available_balls
                     /\ balls'[d] = counted[d]
                     /\ pc'[d] = "idle_count"]_vars

\* a device with a plunger took the loss of a ball for an eject by the player
MissingBallsHandledWitness ==
    \E d \in Devices :
        /\ config.mechanical_eject[d]
        /\ pc[d] = "ball_left"
        /\ mechanical_eject_in_progress[d]
        /\ eject_in_progress_target[d] = config.eject_targets[d][1]
        /\ attempt_log[d] = <<"ball_eject_attempt", "ejecting_ball">>
        /\ attempts[d] = 0
        /\ posted[d].ball_missing = 0

\* q is p followed by what was queued since
IsPrefix(p, q) == Len(p) <= Len(q) /\ SubSeq(q, 1, Len(p)) = p

\* the device d gives up the eject at the head of its queue: the head is
\* removed and ball_lost is posted
CancelsOwnEject(d) ==
    /\ eject_queue[d] # <<>>
    /\ eject_queue'[d] = Tail(eject_queue[d])
    /\ posted'[d].ball_lost = (IF posted[d].ball_lost < 2
                                THEN posted[d].ball_lost + 1 ELSE 2)
    /\ pc'[d] = "idle_count"

\* the count went up while d waited for its ball: back to the idle loop
\* with the queue as it was
CountUpKeepsQueue(d) ==
    (WaitingForBallWake(d, "activity") /\ balls[d] < counted[d]) =>
        /\ eject_queue'[d] = eject_queue[d]
        /\ pc'[d] = "idle_count"

\* only the task of d itself ends the wait or takes the head of the queue:
\* a failure with retry that a source posts does neither
OthersKeepWaiting(d) ==
    (pc[d] = "waiting_for_ball"
       /\ ~ \E event \in WakeEvents : WaitingForBallWake(d, event)) =>
        /\ pc'[d] = "waiting_for_ball"
        /\ IsPrefix(eject_queue[d], eject_queue'[d])
        /\ "source_eject_failure_retry" \notin armed[d]

MechanicalBallArrives(d) ==
    /\ MechanicalWake(d, "activity")
    /\ balls[d] < counted[d]

\* C32: when the ball arrives at a device in waiting_for_ball_mechanical,
\* one step of its task confirms the eject of the source (ball_eject_success
\* of every source whose eject in progress goes to the device), removes the
\* incoming-ball entry of the device and removes the head of its eject_queue
\* or, with an empty queue, adds one to available_balls of the target.
MechanicalArrivalReported ==
    [][\A d \in Devices :
         MechanicalBallArrives(d) =>
             LET target == eject_in_progress_target[d] IN
             /\ \A source \in Devices :
                    eject_in_progress_target[source] = d =>
                        posted'[source].ball_eject_success
                            = posted[source].ball_eject_success + 1
             /\ incoming_balls[d] # <<>> =>
                    incoming_balls'[d] = Tail(incoming_balls[d])
             /\ IF eject_queue[d] # <<>>
                THEN eject_queue'[d] = Tail(eject_queue[d])
                ELSE available_balls'[target] = available_balls[target] + 1
             /\ incoming_balls'[target] = incoming_balls[target]]_vars

\* the eject in progress at d, as an entry of the eject queue
EjectInProgress(d) ==
    [target |-> eject_in_progress_target[d],
     mechanical |-> mechanical_eject_in_progress[d],
     trigger |-> trigger_event[d]]

\* C33: _ejecting takes the head of eject_queue for a first attempt and the
\* ejects behind it keep their order; a retry is an attempt of the same
\* target, mechanical flag and trigger event that goes ahead of every eject
\* queued behind it; in every step the queue of a device only gains entries
\* at its tail, loses its head, or gets the eject in progress back at its
\* head.
FifoRetriesFirst ==
    [][\A d \in Devices :
         LET q == eject_queue[d] IN
         /\ (EntersEjecting(d) /\ attempts'[d] = 1 /\ q # <<>>) =>
                /\ EjectInProgress(d)' = Head(q)
                /\ IsPrefix(Tail(q), eject_queue'[d])
         /\ (EntersEjecting(d) /\ attempts'[d] > 1) =>
                /\ EjectInProgress(d)' = EjectInProgress(d)
                /\ IsPrefix(q, eject_queue'[d])
         /\ \/ IsPrefix(q, eject_queue'[d])
            \/ q # <<>> /\ IsPrefix(Tail(q), eject_queue'[d])
            \/ /\ eject_in_progress_target[d] # None
               /\ IsPrefix(<<EjectInProgress(d)>> \o q, eject_queue'[d])]_vars

\* a second attempt is under way while another eject waits behind it
FifoRetriesFirstWitness ==
    \E d \in Devices :
        /\ attempts[d] = 2
        /\ state[d] = "ejecting"
        /\ eject_queue[d] # <<>>

\* C34: a call of setup_eject_chain that raises has changed no
\* available_balls and no eject_queue.
ChainAllOrNothing ==
    [][\A path \in Paths, player_controlled \in BOOLEAN :
         (/\ ApplyChain(path, player_controlled)
          /\ setup_eject_chain(S, path[1], path, player_controlled).raised
                 # None) =>
             /\ available_balls' = available_balls
             /\ eject_queue' = eject_queue]_vars

\* the search that was asked for came back with a result
SearchReturned ==
    /\ query.fn = "find_path_to_target" => query.result # Diverge
    /\ query.fn = "find_next_trough" => query.result # "_no_return_"

\* C35 as stated: find_path_to_target and find_next_trough return on every
\* device graph, also when ball devices form a cycle through their
\* eject_targets and the target or a trough cannot be reached.
SearchesTerminate == SearchReturned

\* C35 amended: find_path_to_target and find_next_trough return on every
\* device graph whose ball devices form no cycle through their
\* eject_targets, whether or not the target or a trough can be reached.
SearchesTerminateOnDag == Acyclic => SearchReturned

\* a search over a chain of three ball devices found nothing and returned
SearchesTerminateOnDagWitness ==
    /\ Acyclic
    /\ query.fn = "find_path_to_target"
    /\ query.result = <<>>
    /\ \E x, y \in BallDevices \ {query.self} :
           /\ x # y
           /\ x \in Succ(query.self)
           /\ y \in Succ(x)

\* the places where the task of a device waits for a ball from upstream
WaitingForBallPlaces ==
    {"waiting_for_ball", "mechanical_from_idle", "mechanical_from_waiting"}

\* in the step the source posts ball_eject_failed with retry=false for its
\* eject to d
GivesUpWithoutRetry(source, d) ==
    /\ eject_in_progress_target[source] = d
    /\ posted'[source].ball_eject_failed_noretry
           > posted[source].ball_eject_failed_noretry

\* in the step the source gives up its eject to d for good: eject_broken
BecomesBroken(source, d) ==
    /\ eject_in_progress_target[source] = d
    /\ posted'[source].eject_broken > posted[source].eject_broken

\* C36: no notification of a source is lost on its target: when a source
\* posts ball_eject_failed without retry for its eject to D, the task of D is
\* resumed by it whatever D waits for at that moment, and when a source
\* gives its eject to D up for good while D waits for that ball in
\* waiting_for_ball or waiting_for_ball_mechanical, the task of D is resumed
\* and does not go on waiting.
NoWakeupLost ==
    [][\A source \in Devices, d \in Devices :
         source # d =>
             /\ GivesUpWithoutRetry(source, d) =>
                    "source_eject_failure" \in woken'[d]
             /\ (BecomesBroken(source, d) /\ pc[d] \in WaitingForBallPlaces) =>
                    woken'[d] # {}]_vars

\* C37: the assertions "We did not have balls but lost one!" of
\* _waiting_for_ball and "We dont have balls but lose one!" of
\* _waiting_for_ball_mechanical are never raised: the task of no device ends
\* with either of them.
WaitingHoldsNoBall ==
    \A d \in Devices :
        crashed[d] \notin {"We did not have balls but lost one!",
                              "We dont have balls but lose one!"}

\* the step of the task of d runs _cancel_eject, or the branch of
\* _handle_lost_incoming_ball that cancels the eject
RunsCancelEject(d) ==
    \/ WaitingForBallWake(d, "source_eject_failure")
    \/ MechanicalWake(d, "source_eject_failure")
    \/ /\ available_balls[d] = 0
       /\ \E event \in {"timer", "incoming_ball_lost"} :
              WaitingForBallWake(d, event)

\* C38: whenever _cancel_eject or the cancelling branch of
\* _handle_lost_incoming_ball runs, the eject_queue of the device has a
\* head: neither "Should have eject_queue" nor the IndexError of reading the
\* head of an empty queue ends the task.
CancelFindsEject ==
    [][\A d \in Devices :
         RunsCancelEject(d) =>
             /\ eject_queue[d] # <<>>
             /\ crashed'[d] = None]_vars


\* ------------------------------------------ ball requests, five devices
MaxRequests == 1     \* calls of _setup_or_queue_eject_to_target

InitRequest ==
    /\ config \in {MkMachine(g, TagsOf({"T"}, {"P"}), TRUE) : g \in Graphs}
    /\ Constructed
    /\ Acyclic
    /\ available_balls \in AvailableMaps
    /\ balls = available_balls
    /\ counted = balls
    /\ incoming_balls = [d \in Nodes |-> <<>>]
    /\ eject_in_progress_target = [d \in Nodes |-> None]
    /\ AtRest(Nodes)

\* what the caller sees when the call returns (returned), and what the bus
\* made of the balldevice_balls_available events the call posted
RequestObserved(r, fn, d, target, player_controlled) ==
    [DeliverBallsAvailable([r EXCEPT !.raised = None]) EXCEPT
        !.raised = None,
        !.query = [fn |-> fn, self |-> d, target |-> target,
                   player_controlled |-> player_controlled,
                   ball_requests |-> ball_requests,
                   available_balls |-> available_balls,
                   queued |-> eject_queue,
                   ret |-> r.ret,
                   raised |-> r.raised,
                   returned |-> [ball_requests |-> r.ball_requests,
                                 available_balls |-> r.available_balls,
                                 queued |-> r.eject_queue],
                   delivery_raised |->
                       DeliverBallsAvailable(
                           [r EXCEPT !.raised = None]).raised]]

\* d._setup_or_queue_eject_to_target(target, player_controlled), as
\* request_ball (target = d), eject and setup_player_controlled_eject call it
SetupOrQueueEject(d, target, player_controlled) ==
    /\ calls < MaxRequests
    /\ Reachable(d, target)
    /\ player_controlled =>
           \/ config.mechanical_eject[d]
           \/ config.player_controlled_eject_event[d] # None
    /\ Commit([RequestObserved(
                   _setup_or_queue_eject_to_target(S, d, target,
                                                   player_controlled),
                   "_setup_or_queue_eject_to_target", d, target,
                   player_controlled)
               EXCEPT !.calls = @ + 1])

\* one announced ball entered d: the ball_enter relay came back with
\* new_balls = 1 and unclaimed_balls = 0
BallEntered(d) ==
    /\ env < MaxEnv
    /\ balls[d] < config.ball_capacity[d]
    /\ Commit([RequestObserved(
                   _balls_added_callback(
                       [S EXCEPT !.balls[d] = @ + 1, !.counted[d] = @ + 1],
                       d, 1, 0),
                   "_balls_added_callback", d, d, FALSE)
               EXCEPT !.env = @ + 1])

NextRequest ==
    \/ \E d \in BallDevices, target \in Nodes, player_controlled \in BOOLEAN :
           SetupOrQueueEject(d, target, player_controlled)
    \/ \E d \in BallDevices : BallEntered(d)

SpecRequest == InitRequest /\ [][NextRequest]_vars

\* requests waiting in the machine, entries in the eject queues
TotalLen(q) == Len(q["T"]) + Len(q["P"]) + Len(q["PF"]) + Len(q["A"]) + Len(q["B"])
Pending(requests) == TotalLen(requests)
TotalQueued(queues) == TotalLen(queues)

\* the requests that left ball_requests between two states became chains
RequestsAccounted(before, queued_before, after, queued_after) ==
    \/ Pending(after) >= Pending(before)
    \/ /\ Pending(after) < Pending(before)
       /\ TotalQueued(queued_after)
              >= TotalQueued(queued_before) + Pending(before) - Pending(after)

\* C39: a ball request is never dropped. A call of
\* _setup_or_queue_eject_to_target raises nothing; when it returns True it set
\* up a chain (eject queues grew, ball_requests as before), when it returns
\* False it appended exactly one (target, player_controlled) entry to the
\* ball_requests of the device and left every available_balls and eject_queue
\* alone; and the handlers of balldevice_balls_available raise nothing and
\* turn every request they take from ball_requests into a chain or put it back.
RequestNeverDropped ==
    query.fn \in {"_setup_or_queue_eject_to_target", "_balls_added_callback"} =>
        /\ query.raised = None
        /\ query.delivery_raised = None
        /\ query.fn = "_setup_or_queue_eject_to_target" =>
               IF query.ret
               THEN /\ query.returned.ball_requests = query.ball_requests
                    /\ TotalQueued(query.returned.queued)
                           > TotalQueued(query.queued)
               ELSE /\ query.returned.ball_requests =
                           [query.ball_requests EXCEPT ![query.self] =
                               Append(@, [target |-> query.target,
                                          player_controlled |->
                                              query.player_controlled])]
                    /\ query.returned.available_balls = query.available_balls
                    /\ query.returned.queued = query.queued
        /\ RequestsAccounted(query.returned.ball_requests,
                             query.returned.queued,
                             ball_requests, eject_queue)
        /\ query.fn = "_balls_added_callback" =>
               RequestsAccounted(query.ball_requests, query.queued,
                                 query.returned.ball_requests,
                                 query.returned.queued)


\* the incoming-ball entries at target that source registered
EntriesFrom(source, target) ==
    {i \in 1..Len(incoming_balls[target]) :
        incoming_balls[target][i].source = source}

\* source is in an eject to target whose ball has left or is awaited:
\* _ball_left and _waiting_for_ball_mechanical announce the ball, and the
\* eject stays open through failed_confirm
CommittedTo(source, target) ==
    /\ crashed[source] = None
    /\ eject_in_progress_target[source] = target
    /\ state[source] \in {"ball_left", "failed_confirm",
                          "waiting_for_ball_mechanical"}

====
